---- MODULE Spec2Model ----
(***************************************************************************)
(* A model of basura: the Unicode classification index (tools/create.js,   *)
(* lib/chars.js), the script catalog (lib/scripts.js), the random-draw     *)
(* engine and the value generator (lib/index.js), and the inverse walker   *)
(* with its replaying source (test/fixtures/un.js).                        *)
(***************************************************************************)
EXTENDS Integers, Sequences, FiniteSets, TLC

VARIABLES
  reference,     \* the reference data the index was built from: [db, rows]
  scriptPoints,  \* Scripts.scriptPoints: the per-script cache of the singleton
  opts,          \* the options a generator was constructed with
  entry,         \* the generation call under way: <<routine, depth>>
  example,       \* the value handed to Arusab.generate
  record,        \* Arusab.record / the recording source's log: <<bytes, reason>>
  now,           \* the wall clock read by new Date()
  spareGauss,    \* this.spareGauss of the generator calls are made on
  out,           \* outcome of the last operation
  phase          \* position of the driver of the current specification

vars == <<reference, scriptPoints, opts, entry, example, record, now, spareGauss, out, phase>>

(***************************************************************************)
(* Bounds of the model.                                                    *)
(***************************************************************************)
MaxByte == 2          \* crypto.randomBytes outcomes: low byte in 0..MaxByte
MaxDraws == 4         \* draws a generative run may make before it is cut off
MaxLen == 2           \* largest arrayLength / stringLength option explored
MaxDepthOpt == 1      \* largest depth option explored
MaxClock == 1         \* the clock takes the values 0..MaxClock
MaxTrace == 2         \* entries of a trace loaded into the replaying source

(***************************************************************************)
(* Generic helpers.                                                        *)
(***************************************************************************)
RECURSIVE IndexOf(_, _, _)
\* Array.prototype.indexOf, 1-based; 0 when absent (JS: -1)
IndexOf(seq, x, i) ==
  IF i > Len(seq) THEN 0
  ELSE IF seq[i] = x THEN i
  ELSE IndexOf(seq, x, i + 1)

Includes(seq, x) == \E i \in 1..Len(seq) : seq[i] = x

\* s with x added unless it is there
AppendNew(s, x) == IF Includes(s, x) THEN s ELSE Append(s, x)

RECURSIVE Distinct(_)
\* the distinct elements of seq in order of first appearance
\* (insertion order of the keys of a JS object)
Distinct(seq) ==
  IF seq = <<>> THEN <<>>
  ELSE AppendNew(Distinct(SubSeq(seq, 1, Len(seq) - 1)), seq[Len(seq)])

RECURSIVE Pow2(_)
Pow2(n) == IF n <= 0 THEN 1 ELSE 2 * Pow2(n - 1)

Shl(x, n) == x * Pow2(n)
Shr(x, n) == x \div Pow2(n)

(***************************************************************************)
(* The reference data the index is built from: the codepoint database      *)
(* (npm codepoints) and the IDNA property table.  A toy database: script   *)
(* "" stands for a codepoint without a script.                             *)
(***************************************************************************)
MaxCode == 8

codePoints ==
  << [code |-> 1, category |-> "Ll", script |-> "Latin"],
     [code |-> 2, category |-> "Lu", script |-> "Latin"],
     [code |-> 3, category |-> "Mn", script |-> "Hebrew"],
     [code |-> 4, category |-> "Lo", script |-> "Hebrew"],
     [code |-> 5, category |-> "Nd", script |-> "Latin"],
     [code |-> 6, category |-> "Ps", script |-> "Common"],
     [code |-> 7, category |-> "Cn", script |-> ""],
     [code |-> 8, category |-> "Lu", script |-> "Vithkuqi"] >>

\* the rows of idna-tables-properties.csv: Codepoint start[-end], Property
idnaRows ==
  << [start |-> 1, end |-> 1, Property |-> "PVALID"],
     [start |-> 2, end |-> 2, Property |-> "DISALLOWED"],
     [start |-> 3, end |-> 5, Property |-> "PVALID"],
     [start |-> 6, end |-> 6, Property |-> "DISALLOWED"],
     [start |-> 7, end |-> 8, Property |-> "UNASSIGNED"] >>

\* the reference top-level labels (npm tlds), as codepoint sequences
tlds == << <<1, 1>>, <<4>> >>

(***************************************************************************)
(* tools/create.js                                                         *)
(***************************************************************************)
RECURSIVE bits(_)
RECURSIVE bitsOfHalf(_)
\* bits counting one bit less: floor(log2(n))
bitsOfHalf(n) == IF n <= 1 THEN 0 ELSE 1 + bitsOfHalf(n \div 2)

\* bits = n => (log2(n) + 1) | 0
bits(n) == IF n <= 0 THEN 0 ELSE 1 + bits(n \div 2)

\* the database loop: only codepoints with a script are kept
codes(db) == SelectSeq(db, LAMBDA cp : cp.script # "")

\* Object.keys(categories), Object.keys(scripts): in order of first appearance
categoryNames(db) == Distinct([i \in 1..Len(codes(db)) |-> codes(db)[i].category])
scriptNames(db) == Distinct([i \in 1..Len(codes(db)) |-> codes(db)[i].script])

\* the characters [0-9A-F] matches, in the order of their values
HexDigits ==
  <<"0", "1", "2", "3", "4", "5", "6", "7", "8", "9", "A", "B", "C", "D", "E", "F">>

\* Codepoint.match(/(?<start>[0-9A-F]+)(?:-(?<end>[0-9A-F]+))?/) on a text
\* given as its characters: m = FALSE when nothing matches, else the first
\* run of hexadecimal digits read as start, and the run after a '-' that
\* follows it at once read as end (start when there is none)
CodepointMatch(text) ==
  LET hex(i) == i \in DOMAIN text /\ Includes(HexDigits, text[i])
      first == CHOOSE i \in DOMAIN text : hex(i) /\ \A j \in 1..(i - 1) : ~hex(j)
      runEnd(a) == CHOOSE b \in a..Len(text) : (\A k \in a..b : hex(k)) /\ ~hex(b + 1)
      parseInt(a, b) ==
        LET v[k \in (a - 1)..b] ==
              IF k = a - 1 THEN 0 ELSE (16 * v[k - 1]) + (IndexOf(HexDigits, text[k], 1) - 1)
        IN  v[b]
      hasEnd == (runEnd(first) + 1) \in DOMAIN text /\ text[runEnd(first) + 1] = "-"
                /\ hex(runEnd(first) + 2)
  IN  IF ~(\E i \in DOMAIN text : hex(i))
      THEN [m |-> FALSE, start |-> 0, end |-> -1]
      ELSE [ m |-> TRUE,
             start |-> parseInt(first, runEnd(first)),
             end |-> IF hasEnd
                     THEN parseInt(runEnd(first) + 2, runEnd(runEnd(first) + 2))
                     ELSE parseInt(first, runEnd(first)) ]

\* the 'data' handler keeping every row
allRowsKept(rows) == rows

\* the 'data' handler: rows whose property is UNASSIGNED are dropped
allRows(rows) == SelectSeq(rows, LAMBDA r : r.Property # "UNASSIGNED")
propertyNames(rows) ==
  Distinct([i \in 1..Len(allRows(rows)) |-> allRows(rows)[i].Property])

\* codes[c], when there is one
HasCode(db, c) == \E i \in 1..Len(codes(db)) : codes(db)[i].code = c
CodeOf(db, c) == codes(db)[CHOOSE i \in 1..Len(codes(db)) : codes(db)[i].code = c]

\* the rows covering c; the last of them decides (trie.set overwrites)
RowsOf(rows, c) ==
  {i \in 1..Len(allRows(rows)) : allRows(rows)[i].start <= c /\ c <= allRows(rows)[i].end}
LastRow(rows, c) ==
  allRows(rows)[CHOOSE i \in RowsOf(rows, c) : \A j \in RowsOf(rows, c) : j <= i]

\* properties[Property] | (num << scriptShift) | (category << categoryShift):
\* the three fields share no bit
Packed(property, script, category, scriptShift, categoryShift) ==
  property + Shl(script, scriptShift) + Shl(category, categoryShift)

\* scripts[s].first, .last: the first and the last codepoint of the database
\* loop with script s; .count: the trie.set calls for its codepoints
ScriptFirst(db, s) ==
  codes(db)[CHOOSE i \in 1..Len(codes(db)) :
              /\ codes(db)[i].script = s
              /\ \A j \in 1..Len(codes(db)) : codes(db)[j].script = s => i <= j].code
ScriptLast(db, s) ==
  codes(db)[CHOOSE i \in 1..Len(codes(db)) :
              /\ codes(db)[i].script = s
              /\ \A j \in 1..Len(codes(db)) : codes(db)[j].script = s => j <= i].code
ScriptCount(db, rows, s) ==
  Cardinality({rc \in (1..Len(allRows(rows))) \X (0..MaxCode) :
                 /\ rc[1] \in RowsOf(rows, rc[2])
                 /\ HasCode(db, rc[2])
                 /\ CodeOf(db, rc[2]).script = s})

\* idna(): the trie, given the names and the shifts
idna(db, rows, cats, scrs, props, scriptShift, categoryShift, invalid) ==
  [c \in 0..MaxCode |->
     IF HasCode(db, c) /\ RowsOf(rows, c) # {}
     THEN Packed(IndexOf(props, LastRow(rows, c).Property, 1) - 1,
                 IndexOf(scrs, CodeOf(db, c).script, 1) - 1,
                 IndexOf(cats, CodeOf(db, c).category, 1) - 1,
                 scriptShift, categoryShift)
     ELSE Shl(1, invalid)]

\* scriptA of main(): [name, num, first, last] of the scripts with count > 0
scriptA(db, rows, scrs) ==
  SelectSeq([i \in 1..Len(scrs) |->
               <<scrs[i], i - 1, ScriptFirst(db, scrs[i]), ScriptLast(db, scrs[i])>>],
            LAMBDA v : ScriptCount(db, rows, v[1]) > 0)

\* main(): data.trie and data.json, given the names and the bit widths
mainBits(db, rows, cats, scrs, props, categoryBits, scriptBits, propertyBits) ==
  [ trie |-> idna(db, rows, cats, scrs, props, propertyBits,
                  propertyBits + scriptBits,
                  propertyBits + scriptBits + categoryBits),
    data |-> [ scripts |-> scriptA(db, rows, scrs),
               categories |-> cats,
               properties |-> props,
               categoryBits |-> categoryBits,
               scriptBits |-> scriptBits,
               propertyBits |-> propertyBits,
               categoryShift |-> propertyBits + scriptBits,
               scriptShift |-> propertyBits,
               propertyShift |-> 0,
               invalid |-> Shl(1, propertyBits + scriptBits + categoryBits),
               error |-> Shl(1, propertyBits + scriptBits + categoryBits + 1) ] ]

\* the 'end' handler: the bit widths from the counts
mainNames(db, rows, cats, scrs, props) ==
  mainBits(db, rows, cats, scrs, props,
           bits(Len(cats) - 1), bits(Len(scrs) - 1), bits(Len(props) - 1))

\* tools/create.js run on a database and a property table
main(db, rows) ==
  mainNames(db, rows, categoryNames(db), scriptNames(db), propertyNames(rows))

\* the index the library ships with
Index == main(codePoints, idnaRows)

(***************************************************************************)
(* lib/chars.js                                                            *)
(***************************************************************************)
NullCP == [code |-> -1, property |-> "", category |-> "", script |-> ""]

\* UnicodeTrie.get: the error value outside the trie's range
trieGet(ix, code) == IF code \in DOMAIN ix.trie THEN ix.trie[code] ELSE ix.data.error

\* the script whose number is num
ScriptOf(d, num) ==
  d.scripts[CHOOSE i \in 1..Len(d.scripts) : d.scripts[i][2] = num][1]

\* the error value taken for the invalid value
UnpackedLenient(d, code, x) ==
  IF x = d.invalid \/ x = d.error THEN [err |-> "", cp |-> NullCP]
  ELSE [ err |-> "",
         cp |-> [ code |-> code,
                  property |-> d.properties[(Shr(x, d.propertyShift) % Pow2(d.propertyBits)) + 1],
                  category |-> d.categories[(Shr(x, d.categoryShift) % Pow2(d.categoryBits)) + 1],
                  script |-> ScriptOf(d, Shr(x, d.scriptShift) % Pow2(d.scriptBits)) ] ]

\* the codepoint unpacked from the trie value x
Unpacked(d, code, x) ==
  IF x = d.invalid THEN [err |-> "", cp |-> NullCP]
  ELSE IF x = d.error THEN [err |-> "Trie error", cp |-> NullCP]
  ELSE [ err |-> "",
         cp |-> [ code |-> code,
                  property |-> d.properties[(Shr(x, d.propertyShift) % Pow2(d.propertyBits)) + 1],
                  category |-> d.categories[(Shr(x, d.categoryShift) % Pow2(d.categoryBits)) + 1],
                  script |-> ScriptOf(d, Shr(x, d.scriptShift) % Pow2(d.scriptBits)) ] ]

\* Chars.get: [err, cp]; cp = NullCP stands for null
CharsGet(ix, code) == Unpacked(ix.data, code, trieGet(ix, code))

(***************************************************************************)
(* lib/scripts.js                                                          *)
(***************************************************************************)
\* Scripts.scripts
ScriptsScripts == [i \in 1..Len(Index.data.scripts) |-> Index.data.scripts[i][1]]

\* Scripts.scriptMap: has(script), then [first, last]
ScriptMapHas(script) == Includes(ScriptsScripts, script)
ScriptMap(script) ==
  << Index.data.scripts[IndexOf(ScriptsScripts, script, 1)][3],
     Index.data.scripts[IndexOf(ScriptsScripts, script, 1)][4] >>

\* the script names requests are made with; "" stands for a missing name
ScriptNameSpace == {"Latin", "Hebrew", "Common", "Vithkuqi", "null"}

\* a cache entry: has = FALSE is an absent key
Absent == [has |-> FALSE, pts |-> <<>>]
EmptyCache == [s \in ScriptNameSpace |-> Absent]

RECURSIVE Scan(_, _, _)
\* if (c && (c.script === script)) sc.push(c)
ScanPush(script, c) == IF c # NullCP /\ c.script = script THEN <<c>> ELSE <<>>

RECURSIVE ScanShort(_, _, _)
\* the scan loop stopping before the last codepoint of the range
ScanShort(script, i, last) ==
  IF i >= last THEN <<>>
  ELSE ScanPush(script, CharsGet(Index, i).cp) \o ScanShort(script, i + 1, last)

\* the scan loop of Scripts.get over [i, last]
Scan(script, i, last) ==
  IF i > last THEN <<>>
  ELSE ScanPush(script, CharsGet(Index, i).cp) \o Scan(script, i + 1, last)

NoFilter == [kind |-> "none", b |-> FALSE, cats |-> <<>>]
BoolFilter(b) == [kind |-> "bool", b |-> b, cats |-> <<>>]
CatFilter(cats) == [kind |-> "cats", b |-> FALSE, cats |-> cats]

\* const [first, last] = map, and the scan
ScanMap(script, map) == Scan(script, map[1], map[2])

\* the filter keeping only the first category listed
ScriptsFilterFirst(sc, filter) ==
  IF filter.kind = "bool" /\ filter.b
  THEN SelectSeq(sc, LAMBDA c : c.property = "PVALID")
  ELSE IF filter.kind = "cats"
  THEN SelectSeq(sc, LAMBDA c : filter.cats # <<>> /\ c.category = filter.cats[1])
  ELSE sc

\* the filter of Scripts.get applied to the script's codepoints sc
ScriptsFilter(sc, filter) ==
  IF filter.kind = "bool" /\ filter.b
  THEN SelectSeq(sc, LAMBDA c : c.property = "PVALID")
  ELSE IF filter.kind = "cats"
  THEN SelectSeq(sc, LAMBDA c : Includes(filter.cats, c.category))
  ELSE sc

\* Scripts.get on a script not in the cache, once sc has been filled
ScriptsFill(sp, script, filter, sc) ==
  [ sp |-> [sp EXCEPT ![script] = [has |-> TRUE, pts |-> sc]], err |-> "",
    pts |-> ScriptsFilter(sc, filter), scanned |-> TRUE ]

\* Scripts.get scanning on every call, without looking in the cache
ScriptsGetRescan(sp, script, filter) ==
  IF script = ""
  THEN [sp |-> sp, err |-> "no script", pts |-> <<>>, scanned |-> FALSE]
  ELSE IF ~ScriptMapHas(script)
  THEN [ sp |-> [sp EXCEPT ![script] = [has |-> TRUE, pts |-> <<>>]],
         err |-> "Unknown script", pts |-> <<>>, scanned |-> FALSE ]
  ELSE ScriptsFill(sp, script, filter, ScanMap(script, ScriptMap(script)))

\* Scripts.get(script, filter) on cache sp: [sp, err, pts, scanned]; the
\* cache entry is set to [] before scriptMap is consulted
ScriptsGet(sp, script, filter) ==
  IF script = ""
  THEN [sp |-> sp, err |-> "no script", pts |-> <<>>, scanned |-> FALSE]
  ELSE IF sp[script].has
  THEN [ sp |-> sp, err |-> "", pts |-> ScriptsFilter(sp[script].pts, filter),
         scanned |-> FALSE ]
  ELSE IF ~ScriptMapHas(script)
  THEN [ sp |-> [sp EXCEPT ![script] = [has |-> TRUE, pts |-> <<>>]],
         err |-> "Unknown script", pts |-> <<>>, scanned |-> FALSE ]
  ELSE ScriptsFill(sp, script, filter, ScanMap(script, ScriptMap(script)))

(***************************************************************************)
(* Buffers are sequences of bytes.  A reason string is modelled by its     *)
(* sequence of comma-separated parts, each a <<text, number>> pair:        *)
(* `_upto(${num})` is <<"_upto", num>>, a fixed text t is <<t, 0>>.        *)
(***************************************************************************)
Lit(t) == << <<t, 0>> >>
Fmt(t, n) == << <<t, n>> >>
unspecified == Lit("unspecified")

Abs(n) == IF n < 0 THEN -n ELSE n

RECURSIVE ModLE(_, _, _, _)
\* the bytes read least significant first
ModLE(buf, i, acc, num) ==
  IF i > Len(buf) THEN acc
  ELSE ModLE(buf, i + 1, ((acc * 256) + buf[(Len(buf) + 1) - i]) % Abs(num), num)

RECURSIVE ModBE(_, _, _, _)
\* buf.readUInt32BE(0) % num, computed bytewise (no 32-bit overflow)
ModBE(buf, i, acc, num) ==
  IF i > Len(buf) THEN acc
  ELSE ModBE(buf, i + 1, ((acc * 256) + buf[i]) % Abs(num), num)

\* Buffer.writeUInt32BE(i) for 0 <= i < 2^31
UInt32BE(i) ==
  << (i \div 16777216) % 256, (i \div 65536) % 256, (i \div 256) % 256, i % 256 >>

(***************************************************************************)
(* Values.  Every value has the same shape: t the kind of value, d its     *)
(* scalar data (codepoints, bytes, ...), k its children in order.          *)
(***************************************************************************)
V(t, d, k) == [t |-> t, d |-> d, k |-> k]
Undefined == V("undefined", <<>>, <<>>)
Null == V("null", <<>>, <<>>)

(***************************************************************************)
(* The state a generation run threads through its calls.                   *)
(*   randBytes  opts.randBytes: "recording" (crypto.randomBytes plus the   *)
(*              log) or "playback" (Arusab.playback)                       *)
(*   src        recording: the buffers crypto.randomBytes returns next;    *)
(*              playback: Arusab.record                                    *)
(*   log        the recording source's log                                 *)
(*   err        "" or the error thrown; "draw" marks a run suspended in a  *)
(*              draw whose outcome is not decided yet (req is the request) *)
(*   sp         Scripts.scriptPoints                                       *)
(*   spareGauss this.spareGauss: <<>> is null                              *)
(*   draws      the calls of opts.randBytes that returned or threw, in     *)
(*              order: [num, reason, err, buf]                             *)
(*   calls      the number of generate() calls entered                     *)
(***************************************************************************)
Machine(randBytes, src, sp, clock) ==
  [ randBytes |-> randBytes, src |-> src, log |-> <<>>, err |-> "",
    req |-> <<0, <<>>>>, sp |-> sp, spareGauss |-> <<>>, now |-> clock,
    draws |-> <<>>, calls |-> 0 ]

Ret(m, v) == [m |-> m, v |-> v]
Throw(m, e) == [m |-> [m EXCEPT !.err = e], v |-> Null]
Ok(r) == r.m.err = ""

\* the outcomes of crypto.randomBytes(size) the model explores
randBytes(size) ==
  IF size = 0 THEN {<<>>}
  ELSE IF size = 8
  THEN {[i \in 1..8 |-> IF i = 8 THEN x ELSE IF i = 7 THEN (x * 10) % 16 ELSE 0] :
          x \in 0..MaxByte}
       \cup {<<127, 240, 0, 0, 0, 0, 0, 0>>}
  ELSE {[i \in 1..size |-> IF i = size THEN x ELSE 0] : x \in 0..MaxByte}

\* the recording source: the generative draw, then the log entry
recording(m, num, reason) ==
  IF m.src = <<>>
  THEN [m |-> [m EXCEPT !.err = "draw", !.req = <<num, reason>>], v |-> <<>>]
  ELSE [m |-> [m EXCEPT !.src = Tail(m.src),
                        !.log = Append(m.log, <<Head(m.src), reason>>)],
        v |-> Head(m.src)]

\* playback failing only when both the length and the reason differ
playbackBoth(rec, num, reason) ==
  IF Len(rec) = 0
  THEN [record |-> rec, err |-> "Out of playback data", buf |-> <<>>]
  ELSE IF (Len(Head(rec)[1]) # num) /\ (reason # Head(rec)[2])
  THEN [record |-> Tail(rec), err |-> "Expected bytes", buf |-> <<>>]
  ELSE [record |-> Tail(rec), err |-> "", buf |-> Head(rec)[1]]

\* playback taking the entry at the end of the record (pop)
playbackPop(rec, num, reason) ==
  IF Len(rec) = 0
  THEN [record |-> rec, err |-> "Out of playback data", buf |-> <<>>]
  ELSE IF (Len(rec[Len(rec)][1]) # num) \/ (reason # rec[Len(rec)][2])
  THEN [record |-> SubSeq(rec, 1, Len(rec) - 1), err |-> "Expected bytes", buf |-> <<>>]
  ELSE [record |-> SubSeq(rec, 1, Len(rec) - 1), err |-> "", buf |-> rec[Len(rec)][1]]

\* playback leaving a mismatching entry in the record
playbackKeep(rec, num, reason) ==
  IF Len(rec) = 0
  THEN [record |-> rec, err |-> "Out of playback data", buf |-> <<>>]
  ELSE IF (Len(Head(rec)[1]) # num) \/ (reason # Head(rec)[2])
  THEN [record |-> rec, err |-> "Expected bytes", buf |-> <<>>]
  ELSE [record |-> Tail(rec), err |-> "", buf |-> Head(rec)[1]]

\* Arusab.playback on this.record = rec: [record, err, buf]
playback(rec, num, reason) ==
  IF Len(rec) = 0
  THEN [record |-> rec, err |-> "Out of playback data", buf |-> <<>>]
  ELSE IF (Len(Head(rec)[1]) # num) \/ (reason # Head(rec)[2])
  THEN [record |-> Tail(rec), err |-> "Expected bytes", buf |-> <<>>]
  ELSE [record |-> Tail(rec), err |-> "", buf |-> Head(rec)[1]]

\* the rest K of a routine after a call r: an error thrown by the call (or a
\* run suspended in a draw) passes through the callers
Bind(r, K(_)) ==
  CHOOSE res \in {IF Ok(x) THEN K(x) ELSE [m |-> x.m, v |-> Null] : x \in {r}} : TRUE

\* the run after the replaying source has answered with p
Played(m, num, reason, p) ==
  [ m |-> [m EXCEPT !.src = p.record, !.err = p.err,
                    !.draws = Append(m.draws,
                       [num |-> num, reason |-> reason, err |-> p.err, buf |-> p.buf])],
    v |-> p.buf ]

\* _randBytes turning to the generative source when the trace is empty
_randBytesFallback(m, num, reason) ==
  IF m.randBytes = "playback" /\ m.src # <<>>
  THEN Played(m, num, reason, playback(m.src, num, reason))
  ELSE Bind(recording(m, num, reason),
            LAMBDA r : Ret([r.m EXCEPT !.draws = Append(m.draws,
                              [num |-> num, reason |-> reason, err |-> "", buf |-> r.v])],
                           r.v))

\* Basura._randBytes: this.opts.randBytes(num, reason)
_randBytes(m, num, reason) ==
  IF m.randBytes = "playback" THEN Played(m, num, reason, playback(m.src, num, reason))
  ELSE Bind(recording(m, num, reason),
            LAMBDA r : Ret([r.m EXCEPT !.draws = Append(m.draws,
                              [num |-> num, reason |-> reason, err |-> "", buf |-> r.v])],
                           r.v))

\* Basura._randUInt32: the four bytes, read big-endian by the callers
_randUInt32(m, reason) == _randBytes(m, 4, Lit("_randUInt32") \o reason)

\* Basura._upto
_upto(m, num, reason) ==
  IF num = 0 THEN Ret(m, 0)
  ELSE Bind(_randUInt32(m, Fmt("_upto", num) \o reason),
            LAMBDA r : Ret(r.m, ModBE(r.v, 1, 0, num)))

\* _pick without its assertion: ary[0] of an empty array is undefined
_pickUnchecked(m, ary, reason) ==
  Bind(_upto(m, Len(ary), Fmt("_pick", Len(ary)) \o reason),
       LAMBDA r : Ret(r.m, IF r.v < Len(ary) THEN ary[r.v + 1] ELSE Undefined))

\* Basura._pick
_pick(m, ary, reason) ==
  IF ~(Len(ary) > 0) THEN Throw(m, "AssertionError")
  ELSE Bind(_upto(m, Len(ary), Fmt("_pick", Len(ary)) \o reason),
            LAMBDA r : Ret(r.m, ary[r.v + 1]))

RECURSIVE _some(_, _, _, _)
\* Basura._some: the elements of ary from index i on that are kept
_some(m, ary, i, reason) ==
  IF i > Len(ary) THEN Ret(m, <<>>)
  ELSE Bind(_upto(m, 2, reason), LAMBDA r :
       Bind(_some(r.m, ary, i + 1, reason), LAMBDA rest :
       Ret(rest.m, (IF r.v # 0 THEN <<ary[i]>> ELSE <<>>) \o rest.v)))

\* Basura._random01: the 52 mantissa bits of the double in [1,2), as seven
\* digits, most significant first: the low nibble of byte 6, then bytes 5..0
_random01(m, reason) ==
  Bind(_randBytes(m, 8, Lit("_random01") \o reason),
       LAMBDA r : Ret(r.m, <<r.v[7] % 16, r.v[6], r.v[5], r.v[4], r.v[3], r.v[2], r.v[1]>>))

RECURSIVE LexLess(_, _)
LexLess(a, b) ==
  IF a = <<>> \/ b = <<>> THEN FALSE
  ELSE IF Head(a) # Head(b) THEN Head(a) < Head(b)
  ELSE LexLess(Tail(a), Tail(b))

\* u < 0.1 for u a result of _random01: 0.1 is 0x1.999999999999Ap-4
LessThanTenth(u) == LexLess(u, <<1, 153, 153, 153, 153, 153, 154>>)

\* 2u - 1 in units of 2^-11, from the twelve leading mantissa bits
Deviate(u) == ((u[1] * 256) + u[2]) - 2048

RECURSIVE GaussLoop(_, _)
\* the while condition of _randomGauss: s >= 1 || s === 0
GaussWhile(m, reason, v1, v2, s) ==
  IF (s = 0) \/ (s >= 2048 * 2048) THEN GaussLoop(m, reason)
  ELSE Ret(m, <<v1, v2, s>>)

\* the do/while of _randomGauss: [m, v = <<v1, v2, s>>]
GaussLoop(m, reason) ==
  Bind(_random01(m, reason), LAMBDA r1 :
  Bind(_random01(r1.m, reason), LAMBDA r2 :
  GaussWhile(r2.m, reason, Deviate(r1.v), Deviate(r2.v),
             (Deviate(r1.v) * Deviate(r1.v)) + (Deviate(r2.v) * Deviate(r2.v)))))

\* _randomGauss leaving the spare it used in place
_randomGaussKeep(m, mean, stdDev, reason) ==
  IF m.spareGauss # <<>>
  THEN Ret(m, <<mean, stdDev, m.spareGauss[1], m.spareGauss[2]>>)
  ELSE Bind(GaussLoop(m, reason),
            LAMBDA r : Ret([r.m EXCEPT !.spareGauss = <<r.v[2], r.v[3]>>],
                           <<mean, stdDev, r.v[1], r.v[3]>>))

\* Basura._randomGauss: the value mean + stdDev * v * sqrt(-2 ln(s) / s) is
\* kept as <<mean, stdDev, v, s>>
_randomGauss(m, mean, stdDev, reason) ==
  IF m.spareGauss # <<>>
  THEN Ret([m EXCEPT !.spareGauss = <<>>],
           <<mean, stdDev, m.spareGauss[1], m.spareGauss[2]>>)
  ELSE Bind(GaussLoop(m, reason),
            LAMBDA r : Ret([r.m EXCEPT !.spareGauss = <<r.v[2], r.v[3]>>],
                           <<mean, stdDev, r.v[1], r.v[3]>>))

(***************************************************************************)
(* lib/index.js: the constructor.                                          *)
(***************************************************************************)
DATE_10YEARS == 315569520   \* in seconds (the source counts milliseconds)

\* the generate_<kind> methods of Basura.prototype
BasuraMethods ==
  { "undefined", "boolean", "Boolean", "integer", "number", "Number", "Buffer",
    "string", "String", "RegExp", "URL", "Array", "TypedArray", "object", "bigint",
    "Date", "symbol", "Map", "Proxy", "Set", "function" }

\* the generate_<kind> methods of Arusab.prototype (test/fixtures/un.js)
ArusabMethods ==
  { "boolean", "Boolean", "integer", "number", "Number", "Infinity", "Buffer",
    "string", "String", "RegExp", "URL", "Array", "TypedArray", "object", "bigint",
    "Date", "symbol", "Map", "Proxy", "Set", "function" }

\* Array.prototype.sort() on the kind names: the names in code-unit order
SortedNames ==
  << "Array", "Boolean", "Buffer", "Date", "Infinity", "Map", "Number", "Promise",
     "Proxy", "RegExp", "Set", "String", "TypedArray", "URL", "WeakMap", "WeakSet",
     "bigint", "boolean", "extra", "function", "integer", "number", "object",
     "string", "symbol", "undefined" >>

cborUnsafe ==
  {"Boolean", "function", "Number", "Promise", "Proxy", "String", "symbol",
   "WeakMap", "WeakSet"}

jsonUnsafe ==
  {"bigint", "Boolean", "Buffer", "Date", "function", "Map", "Number", "Promise",
   "Proxy", "RegExp", "Set", "String", "symbol", "TypedArray", "undefined", "URL",
   "WeakMap", "WeakSet"}

boxed == {"Boolean", "Number", "String"}

\* this.typedArrays: <<constructor name, BYTES_PER_ELEMENT || 1>>
allTypedArrays ==
  << <<"ArrayBuffer", 1>>, <<"DataView", 1>>, <<"Float32Array", 4>>,
     <<"Float64Array", 8>>, <<"Uint8Array", 1>>, <<"Uint8ClampedArray", 1>>,
     <<"Int8Array", 1>>, <<"Uint16Array", 2>>, <<"Int16Array", 2>>,
     <<"Uint32Array", 4>>, <<"Int32Array", 4>>, <<"BigUint64Array", 8>>,
     <<"BigInt64Array", 8>>, <<"SharedArrayBuffer", 1>> >>

\* this.funNumbers: 0 NaN, 1 zero, 2 minus zero, 3 Infinity, 4 -Infinity
allFunNumbers == <<0, 1, 2, 3, 4>>

functionSpecies ==
  << "[Function (anonymous)]", "[Function: anonymous]", "[Function: f1]",
     "[Function: f2]", "[AsyncFunction (anonymous)]", "[AsyncFunction: anonymous]",
     "[AsyncFunction: f1]", "[AsyncFunction: f2]", "[AsyncFunction: f3]",
     "[GeneratorFunction (anonymous)]", "[GeneratorFunction: anonymous]",
     "[GeneratorFunction: f1]", "[GeneratorFunction: f2]",
     "[AsyncGeneratorFunction (anonymous)]", "[AsyncGeneratorFunction: anonymous]",
     "[AsyncGeneratorFunction: f1]", "[AsyncGeneratorFunction: f2]" >>

\* the defaults of the constructor; types is the set of <<name, null?>> entries
DefaultOpts ==
  [ arrayLength |-> 10, cborSafe |-> FALSE, depth |-> 5, jsonSafe |-> FALSE,
    noBoxed |-> FALSE, randBytes |-> "recording", scripts |-> ScriptsScripts,
    stringLength |-> 20, types |-> {} ]

\* this.types with the entries given as null left in
TypesKeepNull(methods, o) ==
  (((methods \cup {e[1] : e \in o.types})
     \ (IF o.cborSafe THEN cborUnsafe ELSE {}))
    \ (IF o.jsonSafe THEN jsonUnsafe ELSE {}))
   \ (IF o.noBoxed THEN boxed ELSE {})

\* this.types after the constructor ran, as the set of its keys
Types(methods, o) ==
  ((((methods \cup {e[1] : e \in o.types}) \ {e[1] : e \in {x \in o.types : x[2]}})
     \ (IF o.cborSafe THEN cborUnsafe ELSE {}))
    \ (IF o.jsonSafe THEN jsonUnsafe ELSE {}))
   \ (IF o.noBoxed THEN boxed ELSE {})

\* the instance the constructor builds for a class with the given methods
Constructor(methods, o) ==
  [ opts |-> o,
    typeNames |-> SelectSeq(SortedNames, LAMBDA n : n \in Types(methods, o)),
    typedArrays |->
      IF o.cborSafe
      THEN SelectSeq(allTypedArrays,
                     LAMBDA c : c[1] \notin {"ArrayBuffer", "DataView", "SharedArrayBuffer"})
      ELSE allTypedArrays,
    funNumbers |-> IF o.jsonSafe THEN <<1>> ELSE allFunNumbers ]

Basura(o) == Constructor(BasuraMethods, o)

(***************************************************************************)
(* lib/index.js: the scalar kinds.                                         *)
(***************************************************************************)
generate_undefined(g, m, depth) == Ret(m, Undefined)

generate_boolean(g, m, depth, reason) ==
  Bind(_upto(m, 2, reason), LAMBDA r : Ret(r.m, V("boolean", <<r.v>>, <<>>)))

generate_Boolean(g, m, depth) ==
  Bind(_upto(m, 2, Lit("Boolean")), LAMBDA r : Ret(r.m, V("Boolean", <<r.v>>, <<>>)))

\* uint32 - 0x7FFFFFFF, kept as <<h, l>> for the number h * 65536 + l with
\* h = (uint32 >> 16) - 0x7FFF and l = (uint32 & 0xFFFF) - 0xFFFF
generate_integer(g, m, depth) ==
  Bind(_randUInt32(m, Lit("integer")),
       LAMBDA r : Ret(r.m, V("integer",
                             << ((r.v[1] * 256) + r.v[2]) - 32767,
                                ((r.v[3] * 256) + r.v[4]) - 65535 >>, <<>>)))

\* isNaN(n) || !isFinite(n) for n = buf.readDoubleBE(0): the exponent is 0x7ff
NotFinite(buf) == (buf[1] % 128 = 127) /\ (buf[2] >= 240)

RECURSIVE NumberLoop(_)
\* the while loop of generate_number
NumberLoop(m) ==
  Bind(_randBytes(m, 8, Lit("number")),
       LAMBDA r : IF NotFinite(r.v) THEN NumberLoop(r.m) ELSE r)

\* the data of a number: <<-1, fun number>> or <<0>> and the eight bytes
generate_number(g, m, depth) ==
  Bind(_random01(m, Lit("number")), LAMBDA r :
    IF LessThanTenth(r.v)
    THEN Bind(_pick(r.m, g.funNumbers, Lit("fun number")),
              LAMBDA f : Ret(f.m, V("number", <<-1, f.v>>, <<>>)))
    ELSE Bind(NumberLoop(r.m),
              LAMBDA n : Ret(n.m, V("number", <<0>> \o n.v, <<>>))))

generate_Number(g, m, depth) ==
  Bind(generate_number(g, m, 0), LAMBDA r : Ret(r.m, V("Number", r.v.d, <<>>)))

generate_Buffer(g, m, depth) ==
  IF depth > g.opts.depth THEN Ret(m, V("Buffer", <<>>, <<>>))
  ELSE Bind(_upto(m, g.opts.stringLength, Lit("Buffer length")), LAMBDA len :
       Bind(_randBytes(len.m, len.v, Lit("Buffer")), LAMBDA buf :
       Ret(buf.m, V("Buffer", buf.v, <<>>))))

\* the run after a call of scripts.get with outcome q
ScriptsGot(m, q) == [m |-> [m EXCEPT !.sp = q.sp, !.err = q.err], v |-> q.pts]

\* scripts.get(script, filter) on the run's catalog
scriptsGet(m, script, filter) == ScriptsGot(m, ScriptsGet(m.sp, script, filter))

RECURSIVE StringLoop(_, _, _, _, _, _)
\* StringPush with no test for nonspacing marks
StringPushAny(m, points, len, i, str, reason, point) ==
  StringLoop(m, points, len, i + 1, Append(str, point.code), reason)

\* StringPush counting a leading nonspacing mark it does not keep
StringPushCounted(m, points, len, i, str, reason, point) ==
  IF i = 0 /\ str = <<>> /\ point.category = "Mn"
  THEN StringLoop(m, points, len, i + 1, str, reason)
  ELSE StringLoop(m, points, len, i + 1, Append(str, point.code), reason)

\* the body of the for loop of generate_string, for the codepoint picked
StringPush(m, points, len, i, str, reason, point) ==
  IF i = 0
  THEN IF point.category # "Mn"
       THEN StringLoop(m, points, len, i + 1, Append(str, point.code), reason)
       ELSE StringLoop(m, points, len, i, str, reason)
  ELSE StringLoop(m, points, len, i + 1, Append(str, point.code), reason)

\* the for loop of generate_string: i codepoints counted, str built so far
StringLoop(m, points, len, i, str, reason) ==
  IF ~(i < len) THEN Ret(m, str)
  ELSE Bind(_pick(m, points, Lit("codepoint") \o reason),
            LAMBDA point : StringPush(point.m, points, len, i, str, reason, point.v))

\* Basura.generate_string: a string is the sequence of its codepoints
generate_string(g, m, depth, reason) ==
  Bind(_pick(m, g.opts.scripts, Lit("script") \o reason), LAMBDA script :
  Bind(scriptsGet(script.m, script.v, NoFilter), LAMBDA points :
  Bind(_upto(points.m, g.opts.stringLength, Lit("stringLength") \o reason), LAMBDA len :
  Bind(StringLoop(len.m, points.v, len.v, 0, <<>>, reason), LAMBDA str :
  Ret(str.m, V("string", str.v, <<>>))))))

generate_String(g, m, depth) ==
  Bind(generate_string(g, m, depth, Lit("String")),
       LAMBDA r : Ret(r.m, V("String", r.v.d, <<>>)))

\* new RegExp(source, flags) throws: an unclosed group (codepoint 6 opens one)
RegExpSyntaxError(source) == Includes(source, 6)

\* 'gimsuy' as flag numbers
RegExpFlags == <<1, 2, 3, 4, 5, 6>>

\* the try block of generate_RegExp
RegExpTry(g, m, depth) ==
  Bind(generate_string(g, m, depth, Lit("RegExp")), LAMBDA src :
  Bind(IF g.opts.cborSafe THEN Ret(src.m, <<>>)
       ELSE _some(src.m, RegExpFlags, 1, Lit("RegExp flags")), LAMBDA flags :
  IF RegExpSyntaxError(src.v.d) THEN Throw(flags.m, "SyntaxError")
  ELSE Ret(flags.m, V("RegExp", flags.v, <<src.v>>))))

RECURSIVE generate_RegExp(_, _, _)
\* catch (ignored) and while (!n): every error thrown in the try block is
\* swallowed and the loop runs again (a run suspended in a draw is no error);
\* an iteration that throws and changes nothing repeats for ever
RegExpCatch(g, m, depth, r) ==
  IF Ok(r) \/ r.m.err = "draw" THEN r
  ELSE IF r.m.src = m.src /\ r.m.sp = m.sp /\ r.m.spareGauss = m.spareGauss
  THEN Throw(r.m, "never returns")
  ELSE generate_RegExp(g, [r.m EXCEPT !.err = ""], depth)

\* Basura.generate_RegExp
generate_RegExp(g, m, depth) == RegExpCatch(g, m, depth, RegExpTry(g, m, depth))

(***************************************************************************)
(* lib/index.js: URL, bigint, Date, symbol, function.                      *)
(***************************************************************************)
protos == <<"http:", "https:", "ftp:">>

RECURSIVE PickLoop(_, _, _, _, _)
\* for (i = 0; i < len; i++) str.push(this._pick(ary, reason).code)
PickLoop(m, ary, len, str, reason) ==
  IF len <= 0 THEN Ret(m, str)
  ELSE Bind(_pick(m, ary, reason), LAMBDA point :
       PickLoop(point.m, ary, len - 1, Append(str, point.v.code), reason))

RECURSIVE SearchLoop(_, _, _, _, _)
\* the search parameters of generate_URL: name, then value, len times
SearchLoop(g, m, depth, len, params) ==
  IF len <= 0 THEN Ret(m, V("search", <<>>, params))
  ELSE Bind(generate_string(g, m, depth + 1, Lit("URL search name")), LAMBDA name :
       Bind(generate_string(g, name.m, depth + 1, Lit("URL search value")), LAMBDA value :
       SearchLoop(g, value.m, depth, len - 1, params \o <<name.v, value.v>>)))

\* if (this._random01(reason) < 0.1) { part } : the part when drawn, else absent
Maybe(m, reason, Part(_), absent) ==
  Bind(_random01(m, reason),
       LAMBDA r : IF LessThanTenth(r.v) THEN Part(r.m) ELSE Ret(r.m, absent))

\* the codepoints of the domain label: the first from lowercase, the rest from more
URLPick(g, m, lowercase, more) ==
  IF ~(Len(lowercase) > 0) THEN Throw(m, "AssertionError")
  ELSE Bind(_pick(m, lowercase, Lit("copdepoint1") \o Lit("URL")), LAMBDA first :
       Bind(_upto(first.m, g.opts.stringLength - 1,
                  Lit("stringLength") \o Lit("URL")), LAMBDA len :
       PickLoop(len.m, more, len.v, <<first.v.code>>, Lit("codepoint") \o Lit("URL"))))

\* the label of generate_URL with its first codepoint picked like the others
URLPointsAnyFirst(g, m, points) ==
  URLPick(g, m,
          SelectSeq(points, LAMBDA p : p.category \in {"Ll", "Lm", "Lo", "Nd", "Mn", "Mc"}),
          SelectSeq(points, LAMBDA p : p.category \in {"Ll", "Lm", "Lo", "Nd", "Mn", "Mc"}))

\* the codepoints of the domain label, from the catalog entry of the tld's script
URLPoints(g, m, points) ==
  URLPick(g, m,
          SelectSeq(points, LAMBDA p : p.category \in {"Ll", "Lo", "Lm"}),
          SelectSeq(points, LAMBDA p : p.category \in {"Ll", "Lm", "Lo", "Nd", "Mn", "Mc"}))

\* const {script} = c: a TypeError when c is null
CharsGot(m, c) ==
  IF c.err # "" THEN Throw(m, c.err)
  ELSE IF c.cp = NullCP THEN Throw(m, "TypeError")
  ELSE Ret(m, c.cp)

\* scripts.chars.get(tld.codePointAt(0)): [m, v = the codepoint's entry]
CharsOf(m, code) == CharsGot(m, CharsGet(Index, code))

\* the domain label of generate_URL: [m, v = codepoints]
URLLabel(g, m, tld) ==
  Bind(CharsOf(m, tld[1]), LAMBDA c :
  Bind(scriptsGet(c.m, c.v.script, BoolFilter(TRUE)), LAMBDA points :
  URLPoints(g, points.m, points.v)))

\* Basura.generate_URL: d = <<protocol, port or -1>>, k = <<label, tld,
\* pathname, hash, search>>; an absent hash or search is Undefined.
\* No label of the toy catalog changes under normalize('NFC').
generate_URL(g, m, depth) ==
  Bind(_pick(m, protos, Lit("URL proto")), LAMBDA proto :
  Bind(_pick(proto.m, tlds, Lit("URL tld")), LAMBDA tld :
  Bind(IF proto.v \in {"http:", "https:"}
       THEN Maybe(tld.m, Lit("URL port?"),
                  LAMBDA mm : _upto(mm, 65536, Lit("URL port")), -1)
       ELSE Ret(tld.m, -1), LAMBDA port :
  Bind(Maybe(port.m, Lit("URL pathname?"),
             LAMBDA mm : generate_string(g, mm, depth + 1, Lit("URL pathname")),
             V("string", <<>>, <<>>)), LAMBDA pathname :
  Bind(Maybe(pathname.m, Lit("URL search?"),
             LAMBDA mm : Bind(_upto(mm, 3, Lit("num search params")),
                              LAMBDA len : SearchLoop(g, len.m, depth, len.v, <<>>)),
             Undefined), LAMBDA search :
  Bind(Maybe(search.m, Lit("URL hash?"),
             LAMBDA mm : generate_string(g, mm, depth + 1, Lit("URL hash")),
             Undefined), LAMBDA hash :
  Bind(URLLabel(g, hash.m, tld.v), LAMBDA label :
  Ret(label.m,
      V("URL", <<IndexOf(protos, proto.v, 1), port.v>>,
        << V("label", label.v, <<>>), V("label", tld.v, <<>>),
           pathname.v, hash.v, search.v >>)))))))))

RECURSIVE StripZeros(_)
\* BigInt('0x' + hex): leading zero bytes do not count
StripZeros(buf) ==
  IF buf = <<>> THEN <<>>
  ELSE IF Head(buf) = 0 THEN StripZeros(Tail(buf))
  ELSE buf

\* Basura._randUBigInt(-1, reason): the magnitude, as its bytes
_randUBigInt(g, m, reason) ==
  Bind(_upto(m, g.opts.stringLength - 1, Lit("_randUBigInt len") \o reason), LAMBDA len :
  Bind(_randBytes(len.m, len.v + 1, Lit("_randUBigInt") \o reason), LAMBDA buf :
  Ret(buf.m, StripZeros(buf.v))))

\* Basura.generate_bigint: d = <<1 if negative else 0>> and the magnitude
\* generate_bigint drawing the sign before the magnitude
generate_bigintSignFirst(g, m, depth) ==
  Bind(generate_boolean(g, m, depth, Lit("bigint sign")), LAMBDA sign :
  Bind(_randUBigInt(g, sign.m, Lit("signed")), LAMBDA bi :
  Ret(bi.m,
      V("bigint", <<IF sign.v.d[1] # 0 /\ bi.v # <<>> THEN 1 ELSE 0>> \o bi.v, <<>>))))

generate_bigint(g, m, depth) ==
  Bind(_randUBigInt(g, m, Lit("signed")), LAMBDA bi :
  Bind(generate_boolean(g, bi.m, depth, Lit("bigint sign")), LAMBDA sign :
  Ret(sign.m,
      V("bigint", <<IF sign.v.d[1] # 0 /\ bi.v # <<>> THEN 1 ELSE 0>> \o bi.v, <<>>))))

\* Basura.generate_Date: the mean is the clock at the time of the call
generate_Date(g, m, depth) ==
  Bind(_randomGauss(m, m.now, DATE_10YEARS, Lit("date")),
       LAMBDA n : Ret(n.m, V("Date", n.v, <<>>)))

generate_symbol(g, m, depth) ==
  Bind(generate_string(g, m, depth + 1, Lit("symbol")),
       LAMBDA r : Ret(r.m, V("symbol", r.v.d, <<>>)))

\* Basura.generate_function: d = <<species>>, k = <<the string returned>>;
\* no data stands for () => {}
generate_function(g, m, depth) ==
  IF depth > g.opts.depth THEN Ret(m, V("function", <<>>, <<>>))
  ELSE Bind(generate_string(g, m, depth, Lit("function")), LAMBDA val :
       Bind(_pick(val.m, functionSpecies, Lit("function species")), LAMBDA species :
       Ret(species.m,
           V("function", <<IndexOf(functionSpecies, species.v, 1)>>, <<val.v>>))))

(***************************************************************************)
(* lib/index.js: the containers and generate.                              *)
(***************************************************************************)
\* the values compared by value in a Set or as Map keys (SameValueZero):
\* primitives; every object is a new object
Primitive(v) ==
  v.t \in {"undefined", "null", "boolean", "integer", "number", "string",
           "bigint", "symbol"}

SameValueZero(a, b) ==
  /\ Primitive(a) /\ Primitive(b)
  /\ \/ a = b
     \/ /\ a.t = "number" /\ b.t = "number"
        /\ {a.d, b.d} = {<<-1, 1>>, <<-1, 2>>}

\* the entry of a Map or an object: k = <<key, value>>
Entry(key, value) == V("entry", <<>>, <<key, value>>)

\* Set.add
SetAdd(s, v) ==
  IF \E i \in 1..Len(s) : SameValueZero(s[i], v) THEN s ELSE Append(s, v)

\* Map.set, o[key] = value: a known key keeps its place
MapSet(s, key, value) ==
  IF \E i \in 1..Len(s) : SameValueZero(s[i].k[1], key)
  THEN [i \in 1..Len(s) |->
          IF SameValueZero(s[i].k[1], key) THEN Entry(s[i].k[1], value) ELSE s[i]]
  ELSE Append(s, Entry(key, value))

RECURSIVE generate(_, _, _)
RECURSIVE ArrayLoop(_, _, _, _, _)
RECURSIVE SetLoop(_, _, _, _, _)
RECURSIVE MapLoop(_, _, _, _, _)
RECURSIVE ObjectLoop(_, _, _, _, _)

RECURSIVE ArrayLoopPrepend(_, _, _, _, _)
\* the loop of generate_Array putting each element in front (unshift)
ArrayLoopPrepend(g, m, depth, len, a) ==
  IF len <= 0 THEN Ret(m, V("Array", <<>>, a))
  ELSE Bind(generate(g, m, depth + 1),
            LAMBDA e : ArrayLoopPrepend(g, e.m, depth, len - 1, <<e.v>> \o a))

ArrayLoop(g, m, depth, len, a) ==
  IF len <= 0 THEN Ret(m, V("Array", <<>>, a))
  ELSE Bind(generate(g, m, depth + 1),
            LAMBDA e : ArrayLoop(g, e.m, depth, len - 1, Append(a, e.v)))

generate_Array(g, m, depth) ==
  IF depth > g.opts.depth THEN Ret(m, V("Array", <<>>, <<>>))
  ELSE Bind(_upto(m, g.opts.arrayLength, Lit("arrayLength")),
            LAMBDA len : ArrayLoop(g, len.m, depth, len.v, <<>>))

\* Basura.generate_TypedArray: t is the constructor picked, d the bytes
generate_TypedArray(g, m, depth) ==
  Bind(_pick(m, g.typedArrays, Lit("TypedArray type")), LAMBDA Type :
  Bind(IF depth > g.opts.depth THEN Ret(Type.m, 0)
       ELSE _upto(Type.m, g.opts.arrayLength, Lit(Type.v[1]) \o Lit(" len")), LAMBDA len :
  Bind(_randBytes(len.m, Type.v[2] * len.v, Lit(Type.v[1])), LAMBDA buf :
  Ret(buf.m, V(Type.v[1], buf.v, <<>>)))))

ObjectLoop(g, m, depth, len, o) ==
  IF len <= 0 THEN Ret(m, V("object", <<>>, o))
  ELSE Bind(generate_string(g, m, depth + 1, Lit("key")), LAMBDA key :
       Bind(generate(g, key.m, depth + 1), LAMBDA value :
       ObjectLoop(g, value.m, depth, len - 1, MapSet(o, key.v, value.v))))

generate_object(g, m, depth) ==
  IF depth > g.opts.depth THEN Ret(m, Null)
  ELSE Bind(_upto(m, g.opts.arrayLength, Lit("objectlen")),
            LAMBDA len : ObjectLoop(g, len.m, depth, len.v, <<>>))

MapLoop(g, m, depth, len, s) ==
  IF len <= 0 THEN Ret(m, V("Map", <<>>, s))
  ELSE Bind(generate(g, m, depth + 1), LAMBDA key :
       Bind(generate(g, key.m, depth + 1), LAMBDA value :
       MapLoop(g, value.m, depth, len - 1, MapSet(s, key.v, value.v))))

generate_Map(g, m, depth) ==
  Bind(IF depth > g.opts.depth THEN Ret(m, 0)
       ELSE _upto(m, g.opts.arrayLength, Lit("Map len")),
       LAMBDA len : MapLoop(g, len.m, depth, len.v, <<>>))

generate_Proxy(g, m, depth) ==
  IF depth > g.opts.depth THEN Ret(m, Null)
  ELSE Bind(generate_object(g, m, depth),
            LAMBDA o : Ret(o.m, V("Proxy", <<>>, <<o.v>>)))

SetLoop(g, m, depth, len, s) ==
  IF len <= 0 THEN Ret(m, V("Set", <<>>, s))
  ELSE Bind(generate(g, m, depth + 1),
            LAMBDA e : SetLoop(g, e.m, depth, len - 1, SetAdd(s, e.v)))

\* generate_Set drawing its length whatever the depth
generate_SetAnyDepth(g, m, depth) ==
  Bind(_upto(m, g.opts.arrayLength, Lit("setlen")),
       LAMBDA len : SetLoop(g, len.m, depth, len.v, <<>>))

generate_Set(g, m, depth) ==
  Bind(IF depth > g.opts.depth THEN Ret(m, 0)
       ELSE _upto(m, g.opts.arrayLength, Lit("setlen")),
       LAMBDA len : SetLoop(g, len.m, depth, len.v, <<>>))

\* this.types[typN].call(this, depth): "extra" is a generator given in
\* opts.types, which draws nothing
Call(g, m, typN, depth) ==
  CASE typN = "undefined" -> generate_undefined(g, m, depth)
    [] typN = "boolean" -> generate_boolean(g, m, depth, Lit("boolean"))
    [] typN = "Boolean" -> generate_Boolean(g, m, depth)
    [] typN = "integer" -> generate_integer(g, m, depth)
    [] typN = "number" -> generate_number(g, m, depth)
    [] typN = "Number" -> generate_Number(g, m, depth)
    [] typN = "Buffer" -> generate_Buffer(g, m, depth)
    [] typN = "string" -> generate_string(g, m, depth, Lit("string"))
    [] typN = "String" -> generate_String(g, m, depth)
    [] typN = "RegExp" -> generate_RegExp(g, m, depth)
    [] typN = "URL" -> generate_URL(g, m, depth)
    [] typN = "Array" -> generate_Array(g, m, depth)
    [] typN = "TypedArray" -> generate_TypedArray(g, m, depth)
    [] typN = "object" -> generate_object(g, m, depth)
    [] typN = "bigint" -> generate_bigint(g, m, depth)
    [] typN = "Date" -> generate_Date(g, m, depth)
    [] typN = "symbol" -> generate_symbol(g, m, depth)
    [] typN = "Map" -> generate_Map(g, m, depth)
    [] typN = "Proxy" -> generate_Proxy(g, m, depth)
    [] typN = "Set" -> generate_Set(g, m, depth)
    [] typN = "function" -> generate_function(g, m, depth)
    [] OTHER -> Ret(m, V("extra", <<>>, <<>>))

\* Basura.generate
\* generate calling the kind at the depth it was called with
generateSameDepth(g, m, depth) ==
  IF depth > g.opts.depth THEN Ret([m EXCEPT !.calls = m.calls + 1], Null)
  ELSE Bind(_pick([m EXCEPT !.calls = m.calls + 1], g.typeNames, Lit("type")),
            LAMBDA typN : Call(g, typN.m, typN.v, depth))

generate(g, m, depth) ==
  IF depth > g.opts.depth THEN Ret([m EXCEPT !.calls = m.calls + 1], Null)
  ELSE Bind(_pick([m EXCEPT !.calls = m.calls + 1], g.typeNames, Lit("type")),
            LAMBDA typN : Call(g, typN.m, typN.v, depth + 1))

\* a call of the given routine: "generate" or a kind (bin/basura.js --type)
Run(g, m, routine, depth) ==
  IF routine = "generate" THEN generate(g, m, depth) ELSE Call(g, m, routine, depth)

(***************************************************************************)
(* test/fixtures/un.js: Arusab, the inverse of Basura.  It walks a value   *)
(* and pushes onto this.record (the log of the run) the draws that would   *)
(* have produced it.  The values walked here have no URL, RegExp, bigint   *)
(* or Proxy in them, and no empty text.                                    *)
(***************************************************************************)
\* the constructor walks the whole prototype chain: Arusab's methods and
\* those of Basura it does not override
Arusab(o) == Constructor(ArusabMethods \cup BasuraMethods, o)

\* Arusab._randBytes
un_randBytes(m, bytes, reason) ==
  Ret([m EXCEPT !.log = Append(m.log, <<bytes, reason>>)], Undefined)

\* Arusab._randUInt32: writeUInt32BE throws outside [0, 2^32 - 1]
un_randUInt32(m, i, reason) ==
  IF i < 0 THEN Throw(m, "RangeError")
  ELSE un_randBytes(m, UInt32BE(i), Lit("_randUInt32") \o reason)

\* Arusab._upto
un_upto(m, num, i, reason) == un_randUInt32(m, i, Fmt("_upto", num) \o reason)

\* Arusab._pick
un_pick(m, ary, x, reason) ==
  IF IndexOf(ary, x, 1) = 0 THEN Throw(m, "not found")
  ELSE un_upto(m, Len(ary), IndexOf(ary, x, 1) - 1, Fmt("_pick", Len(ary)) \o reason)

\* Arusab.generate_boolean
un_generate_boolean(g, m, b, depth, reason) == un_upto(m, 2, b.d[1], reason)

\* Arusab.generate_Boolean
un_generate_Boolean(g, m, b, depth) == un_upto(m, 2, b.d[1], Lit("Boolean"))

\* Arusab.generate_integer: i + 0x7FFFFFFF as its four bytes; the zeroes
\* among the fun numbers are integers too
un_generate_integer(g, m, i, depth) ==
  IF i.t = "number"
  THEN un_randBytes(m, <<127, 255, 255, 255>>, Lit("_randUInt32") \o Lit("integer"))
  ELSE un_randBytes(m, << (i.d[1] + 32767) \div 256, (i.d[1] + 32767) % 256,
                          (i.d[2] + 65535) \div 256, (i.d[2] + 65535) % 256 >>,
                    Lit("_randUInt32") \o Lit("integer"))

\* Arusab.generate_number: the eight bytes of the double
un_generate_number(g, m, n, depth) == un_randBytes(m, Tail(n.d), Lit("number"))

\* Arusab.generate_Number
un_generate_Number(g, m, n, depth) == un_generate_number(g, m, n, 0)

\* Arusab.generate_Infinity: INFINITIES = [-Infinity, Infinity]
un_generate_Infinity(g, m, i, depth) == un_pick(m, <<4, 3>>, i.d[2], Lit("Infinity"))

\* Arusab.generate_Buffer
un_generate_Buffer(g, m, b, depth) ==
  IF depth > g.opts.depth THEN Ret(m, Undefined)
  ELSE Bind(un_upto(m, g.opts.stringLength, Len(b.d), Lit("Buffer length")),
            LAMBDA r : un_randBytes(r.m, b.d, Lit("Buffer")))

RECURSIVE un_StringLoop(_, _, _, _, _)
\* the for loop of Arusab.generate_string over the characters of txt
un_StringLoop(m, codepoints, txt, i, reason) ==
  IF i > Len(txt) THEN Ret(m, Undefined)
  ELSE Bind(un_pick(m, codepoints, txt[i], Lit("codepoint") \o reason),
            LAMBDA r : un_StringLoop(r.m, codepoints, txt, i + 1, reason))

\* Arusab.generate_string once the script of the first codepoint is known
un_StringOf(g, m, txt, reason, script) ==
  Bind(un_pick(m, g.opts.scripts, script, Lit("script") \o reason), LAMBDA s :
  Bind(scriptsGet(s.m, script, NoFilter), LAMBDA points :
  Bind(un_upto(points.m, g.opts.stringLength, Len(txt), Lit("stringLength") \o reason),
       LAMBDA len :
  un_StringLoop(len.m, [i \in 1..Len(points.v) |-> points.v[i].code], txt, 1, reason))))

\* const { script } = scripts.chars.get(cp), c the outcome of chars.get
un_StringScript(g, m, txt, reason, c) ==
  IF c.err # "" THEN Throw(m, c.err)
  ELSE IF c.cp = NullCP THEN Throw(m, "TypeError")
  ELSE un_StringOf(g, m, txt, reason, c.cp.script)

\* Arusab.generate_string, txt a sequence of codepoints
un_generate_string(g, m, txt, depth, reason) ==
  un_StringScript(g, m, txt, reason, CharsGet(Index, txt[1]))

\* Arusab.generate_String
un_generate_String(g, m, txt, depth) ==
  un_generate_string(g, m, txt.d, depth, Lit("String"))

\* Arusab.generate_symbol
un_generate_symbol(g, m, s, depth) ==
  un_generate_string(g, m, s.d, depth + 1, Lit("symbol"))

\* Arusab.generate_Date: today is null, and today.getTime() throws
un_generate_Date(g, m, d, depth) == Throw(m, "TypeError")

\* Arusab.generate_TypedArray
un_generate_TypedArray(g, m, ary, depth) ==
  Bind(un_pick(m, [i \in 1..Len(g.typedArrays) |-> g.typedArrays[i][1]], ary.t,
               Lit("TypedArray type")), LAMBDA ty :
  Bind(IF depth <= g.opts.depth
       THEN un_upto(ty.m, g.opts.arrayLength,
                    Len(ary.d) \div
                      allTypedArrays[IndexOf([i \in 1..Len(allTypedArrays) |->
                                                allTypedArrays[i][1]], ary.t, 1)][2],
                    Lit(ary.t) \o Lit(" len"))
       ELSE Ret(ty.m, Undefined), LAMBDA len :
  un_randBytes(len.m, ary.d, Lit(ary.t))))

\* Arusab.generate_function: the text between the quotes, then the species
un_generate_function(g, m, f, depth) ==
  IF depth > g.opts.depth THEN Ret(m, Undefined)
  ELSE IF f.k = <<>> THEN Throw(m, "TypeError")
  ELSE Bind(un_generate_string(g, m, f.k[1].d, depth, Lit("function")), LAMBDA r :
       un_pick(r.m, functionSpecies, functionSpecies[f.d[1]], Lit("function species")))

\* the kind Arusab.generate finds for the value o (typeof, then the switch)
un_typ(o) ==
  CASE o.t = "number" /\ o.d[1] = -1 ->
         (IF o.d[2] = 0 THEN "NaN"
          ELSE IF o.d[2] \in {3, 4} THEN "Infinity" ELSE "integer")
    [] o.t = "number" /\ o.d[1] # -1 ->
         (IF \A i \in 2..Len(o.d) : o.d[i] = 0 THEN "integer" ELSE "number")
    [] o.t \in {allTypedArrays[i][1] : i \in 1..Len(allTypedArrays)} -> "TypedArray"
    [] OTHER -> o.t

\* the keys and values of a Map in the order of entries()
un_entries(s) ==
  [i \in 1..(2 * Len(s)) |-> s[(i + 1) \div 2].k[IF i % 2 = 1 THEN 1 ELSE 2]]

RECURSIVE un_generate(_, _, _, _)
RECURSIVE un_Each(_, _, _, _, _)
RECURSIVE un_ObjectLoop(_, _, _, _, _)

\* for (const i of a) this.generate(i, depth)
un_Each(g, m, a, i, depth) ==
  IF i > Len(a) THEN Ret(m, Undefined)
  ELSE Bind(un_generate(g, m, a[i], depth),
            LAMBDA r : un_Each(g, r.m, a, i + 1, depth))

\* Arusab.generate_Array
un_generate_Array(g, m, a, depth) ==
  Bind(un_upto(m, g.opts.arrayLength, Len(a.k), Lit("arrayLength")),
       LAMBDA r : un_Each(g, r.m, a.k, 1, depth + 1))

\* the for loop of Arusab.generate_object over the entries of obj
un_ObjectLoop(g, m, obj, i, depth) ==
  IF i > Len(obj) THEN Ret(m, Undefined)
  ELSE Bind(un_generate_string(g, m, obj[i].k[1].d, depth + 1, Lit("key")), LAMBDA key :
       Bind(un_generate(g, key.m, obj[i].k[2], depth + 1), LAMBDA value :
       un_ObjectLoop(g, value.m, obj, i + 1, depth)))

\* Arusab.generate_object
un_generate_object(g, m, obj, depth) ==
  Bind(un_upto(m, g.opts.arrayLength, Len(obj.k), Lit("objectlen")),
       LAMBDA r : un_ObjectLoop(g, r.m, obj.k, 1, depth))

\* Arusab.generate_Map
un_generate_Map(g, m, s, depth) ==
  IF depth > g.opts.depth THEN Ret(m, Undefined)
  ELSE Bind(un_upto(m, g.opts.arrayLength, Len(s.k), Lit("maplen")),
            LAMBDA r : un_Each(g, r.m, un_entries(s.k), 1, depth + 1))

\* Arusab.generate_Set
un_generate_Set(g, m, s, depth) ==
  Bind(un_upto(m, g.opts.arrayLength, Len(s.k), Lit("setlen")),
       LAMBDA r : un_Each(g, r.m, s.k, 1, depth + 1))

\* this.types[typ].call(this, o, depth): generate_undefined is Basura's
un_Call(g, m, typ, o, depth) ==
  CASE typ = "undefined" -> generate_undefined(g, m, depth)
    [] typ = "boolean" -> un_generate_boolean(g, m, o, depth, Lit("boolean"))
    [] typ = "Boolean" -> un_generate_Boolean(g, m, o, depth)
    [] typ = "integer" -> un_generate_integer(g, m, o, depth)
    [] typ = "number" -> un_generate_number(g, m, o, depth)
    [] typ = "Number" -> un_generate_Number(g, m, o, depth)
    [] typ = "Infinity" -> un_generate_Infinity(g, m, o, depth)
    [] typ = "Buffer" -> un_generate_Buffer(g, m, o, depth)
    [] typ = "string" -> un_generate_string(g, m, o.d, depth, Lit("string"))
    [] typ = "String" -> un_generate_String(g, m, o, depth)
    [] typ = "symbol" -> un_generate_symbol(g, m, o, depth)
    [] typ = "Date" -> un_generate_Date(g, m, o, depth)
    [] typ = "Array" -> un_generate_Array(g, m, o, depth)
    [] typ = "TypedArray" -> un_generate_TypedArray(g, m, o, depth)
    [] typ = "object" -> un_generate_object(g, m, o, depth)
    [] typ = "Map" -> un_generate_Map(g, m, o, depth)
    [] typ = "Set" -> un_generate_Set(g, m, o, depth)
    [] typ = "function" -> un_generate_function(g, m, o, depth)
    [] OTHER -> Throw(m, "invalid type")

\* Arusab.generate
un_generate(g, m, o, depth) ==
  Bind(un_pick(m, g.typeNames, un_typ(o), Lit("type")),
       LAMBDA r : un_Call(g, r.m, un_typ(o), o, depth + 1))

\* a call made on the Arusab: generate(o) or generate_<kind>(o)
un_Run(g, m, routine, o, depth) ==
  IF routine = "generate" THEN un_generate(g, m, o, depth)
  ELSE un_Call(g, m, routine, o, depth)

(***************************************************************************)
(* Generation runs.  A generator is constructed with opts and the call     *)
(* entry is made on it, fed by the recording source; each draw is one      *)
(* step.  When the call has returned, the log is loaded into a replaying   *)
(* source and the same call is made on a fresh generator built with        *)
(* options ropts.                                                          *)
(***************************************************************************)
NoOut == [op |-> "none"]

\* the options explored: sizes, depth, scripts, disabled kinds, safety flags
TypePresets ==
  { {},
    {<<"Boolean", TRUE>>, <<"Buffer", TRUE>>},
    {<<"Array", TRUE>>, <<"Boolean", TRUE>>, <<"Buffer", TRUE>>, <<"Date", TRUE>>,
     <<"extra", FALSE>>} }

GenOpts ==
  { [DefaultOpts EXCEPT !.arrayLength = MaxLen, !.stringLength = MaxLen + 1,
                        !.depth = d, !.scripts = <<"Hebrew">>, !.types = ty] :
      d \in 0..MaxDepthOpt, ty \in TypePresets }
  \cup { [DefaultOpts EXCEPT !.arrayLength = MaxLen, !.stringLength = MaxLen + 1,
                             !.depth = MaxDepthOpt, !.scripts = <<"Hebrew", "Common">>,
                             !.cborSafe = f[1], !.jsonSafe = f[2], !.noBoxed = f[3]] :
           f \in {<<TRUE, FALSE, FALSE>>, <<FALSE, TRUE, FALSE>>,
                  <<FALSE, FALSE, TRUE>>} }

\* the calls explored: generate() or one kind, at depth 0 or too deep
Entries(o) ==
  {<<r, d>> : r \in {"generate"} \cup BasuraMethods, d \in {0, o.depth + 1}}

Bufs(rec) == [i \in 1..Len(rec) |-> rec[i][1]]

\* the recording run so far: re-run on the outcomes drawn up to now
RecRun ==
  Run(Basura(opts), Machine("recording", Bufs(record), scriptPoints, now),
      entry[1], entry[2])

\* the replaying run of the same call on a generator with options o
PlayRun(o) ==
  Run(Basura([o EXCEPT !.randBytes = "playback"]),
      Machine("playback", record, scriptPoints, now), entry[1], entry[2])

Init ==
  /\ opts \in GenOpts
  /\ entry \in Entries(opts)
  /\ example = Undefined
  /\ record = <<>>
  /\ now = 0
  /\ spareGauss = <<>>
  /\ reference = [db |-> codePoints, rows |-> idnaRows]
  /\ scriptPoints = EmptyCache
  /\ out = NoOut
  /\ phase = "recording"

\* crypto.randomBytes answers the draw the run r waits in, and the log grows
Drawn(r) ==
  /\ r.m.err = "draw"
  /\ \E b \in randBytes(r.m.req[1]) : record' = Append(record, <<b, r.m.req[2]>>)

\* one draw of the recording source
Draw ==
  /\ phase = "recording"
  /\ Len(record) < MaxDraws
  /\ Drawn(RecRun)
  /\ UNCHANGED <<scriptPoints, opts, entry, example, now, out, phase, spareGauss, reference>>

\* the call made in run r is over: returned, or thrown
Returned(r) ==
  /\ r.m.err # "draw"
  /\ out' = [ op |-> "generate", val |-> r.v, err |-> r.m.err, draws |-> r.m.draws,
              calls |-> r.m.calls, log |-> r.m.log, now |-> now, sp |-> scriptPoints ]
  /\ scriptPoints' = r.m.sp

\* the recorded call returns or throws
Return ==
  /\ phase = "recording"
  /\ Returned(RecRun)
  /\ phase' = "recorded"
  /\ UNCHANGED <<opts, entry, example, record, now, spareGauss, reference>>

\* time passes between the two runs
Tick ==
  /\ phase = "recorded"
  /\ now < MaxClock
  /\ now' = now + 1
  /\ UNCHANGED <<scriptPoints, opts, entry, example, record, out, phase, spareGauss, reference>>

\* the options of the replaying generator: the same, or one option changed
ReplayOpts(o) ==
  { o,
    [o EXCEPT !.depth = MaxDepthOpt - o.depth],
    [o EXCEPT !.arrayLength = MaxLen - 1],
    [o EXCEPT !.types = {<<"Boolean", TRUE>>, <<"Buffer", TRUE>>}] }

\* the replaying run r of a generator with options o is over
Replayed(o, r) ==
  /\ out' = [ op |-> "replay", val |-> out.val, err |-> out.err,
              draws |-> out.draws, calls |-> out.calls, log |-> out.log,
              now |-> out.now, sp |-> out.sp,
              ropts |-> [o EXCEPT !.randBytes = opts.randBytes],
              rval |-> r.v, rerr |-> r.m.err, rdraws |-> r.m.draws,
              rcalls |-> r.m.calls, rnow |-> now, trace |-> record ]
  /\ record' = r.m.src
  /\ scriptPoints' = r.m.sp

\* the replaying run, from the recorded trace
Replay ==
  /\ phase = "recorded"
  /\ out.err = ""
  /\ \E o \in ReplayOpts(opts) : Replayed(o, PlayRun(o))
  /\ phase' = "replayed"
  /\ UNCHANGED <<opts, entry, example, now, spareGauss, reference>>

Next == Draw \/ Return \/ Tick \/ Replay

Spec == Init /\ [][Next]_vars

(***************************************************************************)
(* The script catalog on its own: calls of Scripts.get on the singleton.   *)
(***************************************************************************)
Filters ==
  { NoFilter, BoolFilter(TRUE), BoolFilter(FALSE), CatFilter(<<"Lo">>),
    CatFilter(<<"Ll", "Mn">>) }

InitScripts ==
  /\ scriptPoints = EmptyCache
  /\ opts = DefaultOpts
  /\ entry = <<"get", 0>>
  /\ example = Undefined
  /\ record = <<>>
  /\ now = 0
  /\ spareGauss = <<>>
  /\ reference = [db |-> codePoints, rows |-> idnaRows]
  /\ out = NoOut
  /\ phase = "scripts"

\* the call get(script, filter) ended as r: returned, or thrown
Got(script, filter, r) ==
  /\ out' = [ op |-> "get", script |-> script, filter |-> filter, err |-> r.err,
              pts |-> r.pts, before |-> scriptPoints, scanned |-> r.scanned,
              \* history: the scripts scanned once, and those scanned again
              once |-> (IF out.op = "get" THEN out.once ELSE {})
                       \cup (IF r.scanned THEN {script} ELSE {}),
              again |-> (IF out.op = "get" THEN out.again ELSE {})
                        \cup (IF r.scanned /\ out.op = "get" /\ script \in out.once
                              THEN {script} ELSE {}) ]
  /\ scriptPoints' = r.sp

\* one call of Scripts.get
Get ==
  /\ \E script \in ScriptNameSpace \cup {""}, filter \in Filters :
       Got(script, filter, ScriptsGet(scriptPoints, script, filter))
  /\ UNCHANGED <<opts, entry, example, record, now, phase, spareGauss, reference>>

NextScripts == Get

SpecScripts == InitScripts /\ [][NextScripts]_vars

(***************************************************************************)
(* The replaying source on its own: a trace is loaded and draws are asked  *)
(* of Basura._randBytes with opts.randBytes = un.playback.                 *)
(***************************************************************************)
PlayReasons == {Lit("a"), Lit("b")}

PlayEntries ==
  {<<b, r>> : b \in UNION {randBytes(n) : n \in 0..MaxLen}, r \in PlayReasons}

Traces == UNION {[1..n -> PlayEntries] : n \in 0..MaxTrace}

InitPlayback ==
  /\ record \in Traces
  /\ opts = [DefaultOpts EXCEPT !.randBytes = "playback"]
  /\ entry = <<"_randBytes", 0>>
  /\ example = Undefined
  /\ scriptPoints = EmptyCache
  /\ now = 0
  /\ spareGauss = <<>>
  /\ reference = [db |-> codePoints, rows |-> idnaRows]
  /\ out = NoOut
  /\ phase = "playback"

\* the draw of num bytes for reason ended as r: returned, or thrown
Asked(num, reason, r) ==
  /\ out' = [ op |-> "draw", num |-> num, reason |-> reason, err |-> r.m.err,
              buf |-> r.v, before |-> record,
              \* history: the trace loaded, the buffers returned, whether a draw failed
              loaded |-> IF out.op = "none" THEN record ELSE out.loaded,
              returned |-> IF r.m.err # "" THEN (IF out.op = "none" THEN <<>> ELSE out.returned)
                           ELSE Append(IF out.op = "none" THEN <<>> ELSE out.returned, r.v),
              failed |-> IF r.m.err # "" THEN TRUE
                         ELSE IF out.op = "none" THEN FALSE ELSE out.failed ]
  /\ record' = r.m.src

\* one draw asked of the replaying source
Ask ==
  /\ \E num \in 0..MaxLen, reason \in PlayReasons :
       Asked(num, reason,
             _randBytes(Machine(opts.randBytes, record, scriptPoints, now), num, reason))
  /\ UNCHANGED <<scriptPoints, opts, entry, example, now, phase, spareGauss, reference>>

NextPlayback == Ask

SpecPlayback == InitPlayback /\ [][NextPlayback]_vars

(***************************************************************************)
(* The inverse walk (test 'playback', test 'combining'): an Arusab walks   *)
(* the value example, and a fresh Basura replays its record.               *)
(***************************************************************************)
\* texts of the Hebrew script: 3 is a nonspacing mark, 4 a letter
UnTexts == UNION {[1..n -> {3, 4}] : n \in 1..MaxLen}

UnBuffers == UNION {randBytes(n) : n \in 0..MaxLen}

UnStrings == {V("string", t, <<>>) : t \in UnTexts}

UnScalars ==
  UnStrings
  \cup {V(t, txt, <<>>) : t \in {"String", "symbol"}, txt \in UnTexts}
  \cup {V(t, <<b>>, <<>>) : t \in {"boolean", "Boolean"}, b \in 0..1}
  \cup {V("integer", <<-32767, x - 65535>>, <<>>) : x \in 0..MaxByte}
  \cup {V("number", <<-1, f>>, <<>>) : f \in {0, 3, 4}}
  \cup {V(t, <<0, 0, 0, 0, 0, 0, 0, 0, 1>>, <<>>) : t \in {"number", "Number"}}
  \cup {V(t, b, <<>>) : t \in {"Buffer", "Uint8Array"}, b \in UnBuffers}
  \cup {Undefined, Null, V("Date", <<0>>, <<>>), V("Uint16Array", <<0, 1>>, <<>>)}
  \cup {V("function", <<s>>, <<txt>>) : s \in {1, 3}, txt \in UnStrings}

UnValues ==
  UnScalars
  \cup {V("Array", <<>>, a) : a \in UNION {[1..n -> UnStrings] : n \in 0..MaxLen}}
  \cup {V(t, <<>>, <<v>>) : t \in {"Array", "Set"},
                            v \in {V("boolean", <<1>>, <<>>), V("Set", <<>>, <<>>)}}
  \cup {V(t, <<>>, <<Entry(key, V("boolean", <<0>>, <<>>))>>) :
          t \in {"Map", "object"}, key \in UnStrings}
  \cup {V(t, <<>>, <<>>) : t \in {"Set", "Map", "object"}}

UnOpts ==
  { [DefaultOpts EXCEPT !.arrayLength = MaxLen + 1, !.stringLength = MaxLen + 1,
                        !.scripts = s] : s \in {<<"Hebrew">>, <<"Common", "Hebrew">>} }

\* the calls explored: generate(example), or the routine of its kind
UnEntries(o) ==
  {<<r, 0>> : r \in {"generate"} \cup ({un_typ(o)} \cap (ArusabMethods \cap BasuraMethods))}

InitUn ==
  /\ opts \in UnOpts
  /\ example \in UnValues
  /\ entry \in UnEntries(example)
  /\ record = <<>>
  /\ now = 0
  /\ spareGauss = <<>>
  /\ reference = [db |-> codePoints, rows |-> idnaRows]
  /\ scriptPoints = EmptyCache
  /\ out = NoOut
  /\ phase = "walking"

\* the walk r of example is over: un.record is the trace to replay
Walked(r) ==
  /\ out' = [ op |-> "generate", val |-> example, err |-> r.m.err, draws |-> <<>>,
              calls |-> 0, log |-> r.m.log, now |-> now, sp |-> scriptPoints ]
  /\ record' = r.m.log
  /\ scriptPoints' = r.m.sp

\* un.generate(example), or un.generate_<kind>(example)
Walk ==
  /\ phase = "walking"
  /\ Walked(un_Run(Arusab(opts), Machine("playback", <<>>, scriptPoints, now),
                   entry[1], example, entry[2]))
  /\ phase' = "recorded"
  /\ UNCHANGED <<opts, entry, example, now, spareGauss, reference>>

NextUn == Walk \/ Replay

SpecUn == InitUn /\ [][NextUn]_vars

(***************************************************************************)
(* The draw engine on its own: calls of _upto, _pick, generate_integer and *)
(* _randomGauss made on one Basura whose source is crypto.randomBytes.     *)
(***************************************************************************)
\* outcomes of crypto.randomBytes(4): the corners of the uint32 range
UInt32Bufs ==
  {<<a, b, 0, d>> : a \in {0, 127, 255}, b \in {0, 255}, d \in {255} \cup (0..MaxByte)}
  \cup {<<255, 255, 255, 255>>}

\* what the source returns during one call, draw by draw
UInt32Streams == {<<>>} \cup {<<b>> : b \in UInt32Bufs}
\* no draw, or one pair of 8-byte draws, alone or after a pair that is
\* rejected: zeros (v1 = v2 = -1, s = 2) or halves (v1 = v2 = 0, s = 0)
PairStreams ==
  {<<>>}
  \cup {s \o <<b1, b2>> :
          s \in { <<>>, <<[i \in 1..8 |-> 0], [i \in 1..8 |-> 0]>>,
                  <<<<0, 0, 0, 0, 0, 0, 8, 0>>, <<0, 0, 0, 0, 0, 0, 8, 0>>>> },
          b1 \in randBytes(8), b2 \in randBytes(8)}

UptoNums == {0, 1, 3, 10, 32768}
PickArys == {<<>>, <<"a">>, <<"a", "b", "c">>}
GaussArgs == (0..MaxClock) \X {1, DATE_10YEARS}

InitEngine ==
  /\ opts = DefaultOpts
  /\ entry = <<"engine", 0>>
  /\ example = Undefined
  /\ record = <<>>
  /\ scriptPoints = EmptyCache
  /\ now = 0
  /\ spareGauss = <<>>
  /\ reference = [db |-> codePoints, rows |-> idnaRows]
  /\ out = NoOut
  /\ phase = "engine"

\* the generator the calls are made on, its source about to return stream
EngineMachine(stream) ==
  [Machine(opts.randBytes, stream, scriptPoints, now) EXCEPT !.spareGauss = spareGauss]

\* the call op(arg) ended as r, returned or thrown, the source having
\* returned the bytes of the stream, each buffer of the length asked for
Called(op, arg, r) ==
  /\ r.m.err # "draw" /\ r.m.src = <<>>
  /\ \A i \in 1..Len(r.m.draws) : Len(r.m.draws[i].buf) = r.m.draws[i].num
  /\ out' = [ op |-> op, arg |-> arg, val |-> r.v, err |-> r.m.err,
              draws |-> r.m.draws, spare |-> spareGauss ]
  /\ spareGauss' = r.m.spareGauss
  /\ scriptPoints' = r.m.sp

Upto ==
  /\ \E num \in UptoNums, stream \in UInt32Streams :
       Called("_upto", num, _upto(EngineMachine(stream), num, unspecified))
  /\ UNCHANGED <<opts, entry, example, record, now, phase, reference>>

Pick ==
  /\ \E ary \in PickArys, stream \in UInt32Streams :
       Called("_pick", ary, _pick(EngineMachine(stream), ary, unspecified))
  /\ UNCHANGED <<opts, entry, example, record, now, phase, reference>>

Integer ==
  /\ \E stream \in UInt32Streams :
       Called("generate_integer", 0,
              generate_integer(Basura(opts), EngineMachine(stream), 0))
  /\ UNCHANGED <<opts, entry, example, record, now, phase, reference>>

Gauss ==
  /\ \E arg \in GaussArgs, stream \in PairStreams :
       Called("_randomGauss", arg,
              _randomGauss(EngineMachine(stream), arg[1], arg[2], unspecified))
  /\ UNCHANGED <<opts, entry, example, record, now, phase, reference>>

NextEngine == Upto \/ Pick \/ Integer \/ Gauss

SpecEngine == InitEngine /\ [][NextEngine]_vars

(***************************************************************************)
(* generate_URL as a whole call, on streams that answer its draws          *)
(***************************************************************************)
No8 == <<0, 0, 0, 0, 0, 0, 8, 0>>       \* _random01 = 0.5: the part is left out
Yes8 == <<0, 0, 0, 0, 0, 0, 0, 0>>      \* _random01 = 0: the part is generated
Pick4 == {<<0, 0, 0, x>> : x \in 0..2}

\* the draws from the port to the hash: none generated, a port (http: and
\* https: only), or an empty pathname in the first script
URLParts(p) ==
  IF protos[ModBE(p, 1, 0, Len(protos)) + 1] = "ftp:"
  THEN {<<No8, No8, No8>>, <<Yes8, <<0, 0, 0, 0>>, <<0, 0, 0, 0>>, No8, No8>>}
  ELSE {<<No8, No8, No8, No8>>, <<Yes8, <<0, 0, 1, 187>>, No8, No8, No8>>}

\* proto, tld, the parts, the first codepoint, the length, the other codepoints
URLStreams ==
  UNION { { <<p, t>> \o parts \o <<<<0, 0, 0, 1>>, l>> \o more :
              parts \in URLParts(p),
              more \in [1..ModBE(l, 1, 0, opts.stringLength - 1) ->
                          {<<0, 0, 0, 0>>, <<0, 0, 0, 1>>}] } :
          p \in Pick4, t \in {<<0, 0, 0, 0>>, <<0, 0, 0, 1>>}, l \in Pick4 }

URL ==
  /\ \E stream \in URLStreams :
       Called("generate_URL", 0,
              generate_URL(Basura(opts), EngineMachine(stream), 0))
  /\ UNCHANGED <<opts, entry, example, record, now, phase, reference>>

NextURL == URL

SpecURL == InitEngine /\ [][NextURL]_vars


(***************************************************************************)
(* The index on its own: tools/create.js run on a codepoint database and a *)
(* property table, and Chars.get on the files it wrote.                    *)
(***************************************************************************)
\* what a database holds for a codepoint: nothing (no category), or a
\* category and a script, "" for no script
DbChoices ==
  {<<"", "">>, <<"Ll", "Latin">>, <<"Lu", "">>, <<"Mn", "Hebrew">>, <<"Ps", "Common">>}
DbCodes == 1..3

\* the database holding f[c] for codepoint c
DbOf(f) ==
  SelectSeq([c \in DbCodes |-> [code |-> c, category |-> f[c][1], script |-> f[c][2]]],
            LAMBDA cp : cp.category # "")

\* a row of the table with its Codepoint text, and what the build reads in it
TextRow(text, Property) ==
  [ Codepoint |-> text, start |-> CodepointMatch(text).start,
    end |-> CodepointMatch(text).end, Property |-> Property ]

\* the row written for the codepoints start..end
Row(start, end, Property) ==
  TextRow(IF start = end THEN <<HexDigits[start + 1]>>
          ELSE <<HexDigits[start + 1], "-", HexDigits[end + 1]>>, Property)

\* property tables: ranges that do not overlap; 4 is in no database
PropertyTables ==
  { <<>>,
    <<Row(1, 1, "PVALID")>>,
    <<Row(1, 2, "PVALID"), Row(3, 3, "UNASSIGNED")>>,
    <<Row(2, 4, "DISALLOWED")>>,
    <<Row(1, 1, "UNASSIGNED"), Row(2, 2, "PVALID"), Row(3, 3, "DISALLOWED")>>,
    <<Row(1, 1, "CONTEXTJ"), Row(2, 2, "PVALID"), Row(3, 3, "DISALLOWED")>>,
    \* entries that are neither a codepoint nor a range
    <<Row(1, 1, "PVALID"), TextRow(<<"x">>, "DISALLOWED")>>,
    <<TextRow(<<"2", "-", "x">>, "PVALID")>>,
    <<TextRow(<<"x", "3">>, "PVALID"), TextRow(<<"y">>, "UNASSIGNED")>> }

InitIndex ==
  /\ reference \in [db : {DbOf(f) : f \in [DbCodes -> DbChoices]}, rows : PropertyTables]
  /\ opts = DefaultOpts
  /\ entry = <<"get", 0>>
  /\ example = Undefined
  /\ record = <<>>
  /\ scriptPoints = EmptyCache
  /\ now = 0
  /\ spareGauss = <<>>
  /\ out = NoOut
  /\ phase = "index"

\* chars.get(code) on the files ix ended: x is what the trie gave;
\* the build rejects on a row whose Codepoint does not match and writes no
\* file: there is nothing to look up
Looked(code, ix) ==
  out' = IF \E i \in DOMAIN allRows(reference.rows) :
              ~CodepointMatch(allRows(reference.rows)[i].Codepoint).m
         THEN [op |-> "build", err |-> "Invalid codepoint"]
         ELSE [ op |-> "lookup", code |-> code, x |-> trieGet(ix, code),
                err |-> CharsGet(ix, code).err, cp |-> CharsGet(ix, code).cp ]

\* one call of Chars.get on the index built from the reference data
Lookup ==
  /\ \E code \in (-1)..(MaxCode + 1) :
       Looked(code, main(reference.db, reference.rows))
  /\ UNCHANGED <<reference, scriptPoints, opts, entry, example, record, now,
                 spareGauss, phase>>

NextIndex == Lookup

SpecIndex == InitIndex /\ [][NextIndex]_vars

(***************************************************************************)
(* Container calls: generate_Array, generate_Set, generate_Map and         *)
(* generate_object called at a depth within the limit, draw by draw.       *)
(***************************************************************************)
Containers == {"Array", "Set", "Map", "object"}

\* sizes 0 and MaxLen + 1, keys of length 0 or below MaxLen
\* the kinds given as null to leave Map, Proxy and Set as the first kinds
NoScalars ==
  { <<"Array", TRUE>>, <<"Boolean", TRUE>>, <<"Buffer", TRUE>>, <<"Date", TRUE>>,
    <<"Number", TRUE>>, <<"RegExp", TRUE>> }

ContainerOpts ==
  { [DefaultOpts EXCEPT !.arrayLength = a, !.stringLength = s, !.depth = d,
                        !.scripts = <<"Hebrew">>] :
      a \in {0, MaxLen + 1}, s \in {0, MaxLen}, d \in 0..MaxDepthOpt }
  \* depths that leave room for a container within a container
  \cup { [DefaultOpts EXCEPT !.arrayLength = MaxLen + 1, !.stringLength = 0,
                             !.depth = d, !.scripts = <<"Hebrew">>, !.types = ty] :
           d \in {MaxDepthOpt + 1, MaxDepthOpt + 2}, ty \in {{}, NoScalars} }

\* the calls explored: at the depth limit (every element is past it) or
\* one level above it (every element picks a kind)
\* or generate(0)
ContainerEntries(o) ==
  {<<r, d>> : r \in Containers, d \in {o.depth - 1, o.depth} \cap (0..o.depth)}
  \cup {<<"generate", 0>>}

InitContainers ==
  /\ opts \in ContainerOpts
  /\ entry \in ContainerEntries(opts)
  /\ example = Undefined
  /\ record = <<>>
  /\ now = 0
  /\ spareGauss = <<>>
  /\ reference = [db |-> codePoints, rows |-> idnaRows]
  /\ scriptPoints = EmptyCache
  /\ out = NoOut
  /\ phase = "recording"

NextContainers == Draw \/ Return

SpecContainers == InitContainers /\ [][NextContainers]_vars

(***************************************************************************)
(* generate_bigint on its own, for every stringLength from 0 to MaxLen + 1 *)
(***************************************************************************)
BigintOpts ==
  { [DefaultOpts EXCEPT !.stringLength = s, !.scripts = <<"Hebrew">>] :
      s \in 0..(MaxLen + 1) }

InitBigint ==
  /\ opts \in BigintOpts
  /\ entry \in {<<"bigint", d>> : d \in {0, opts.depth + 1}}
  /\ example = Undefined
  /\ record = <<>>
  /\ now = 0
  /\ spareGauss = <<>>
  /\ reference = [db |-> codePoints, rows |-> idnaRows]
  /\ scriptPoints = EmptyCache
  /\ out = NoOut
  /\ phase = "recording"

NextBigint == Draw \/ Return

SpecBigint == InitBigint /\ [][NextBigint]_vars

(***************************************************************************)
(* Generators sharing the script catalog: each step is a generate_string   *)
(* call of a generator with its own options and its own replaying source.  *)
(***************************************************************************)
SharedOpts ==
  { [DefaultOpts EXCEPT !.randBytes = "playback", !.scripts = sc, !.stringLength = MaxLen] :
      sc \in {<<"Hebrew">>, <<"Latin", "Hebrew">>, <<"Vithkuqi">>} }

SharedStreams ==
  UNION {[1..n -> {<<0, 0, 0, 0>>, <<0, 0, 0, 1>>}] : n \in 0..3}

\* the trace a recording generator with options o leaves on a stream
RecLog(o, stream) ==
  Run(Basura([o EXCEPT !.randBytes = "recording"]),
      Machine("recording", stream, EmptyCache, 0), "string", 0).m.log

\* a recorded draw of length 0
LenEntry(o) ==
  << <<0, 0, 0, 0>>,
     Lit("_randUInt32") \o Fmt("_upto", o.stringLength) \o Lit("stringLength")
     \o Lit("string") >>

\* the traces loaded: recorded ones, followed or not by one more entry
SharedTraces(o) ==
  {RecLog(o, stream) \o extra : stream \in SharedStreams, extra \in {<<>>, <<LenEntry(o)>>}}

\* the call of the generator with options o replaying trace ended as r
SharedRan(o, trace, r) ==
  /\ out' = [ op |-> "shared", opts |-> o, trace |-> trace, val |-> r.v,
              err |-> r.m.err, rest |-> r.m.src, before |-> scriptPoints ]
  /\ scriptPoints' = r.m.sp

\* one generate_string call of one generator on the shared catalog
Shared ==
  /\ \E o \in SharedOpts : \E trace \in SharedTraces(o) :
       SharedRan(o, trace,
                 Run(Basura(o), Machine("playback", trace, scriptPoints, now),
                     "string", 0))
  /\ UNCHANGED <<opts, entry, example, record, now, phase, spareGauss, reference>>

NextShared == Shared

SpecShared == InitScripts /\ [][NextShared]_vars

(***************************************************************************)
(* Properties of generation runs.                                          *)
(***************************************************************************)
TraceErrors == {"Out of playback data", "Expected bytes"}

\* what a run asked of its source: the length and the reason of every draw
Requests(draws) == [i \in 1..Len(draws) |-> <<draws[i].num, draws[i].reason>>]

SameConfiguration == out.ropts = opts

\* C1: a replay of the recorded trace by a generator with the same
\* configuration, given the same call, completes without a trace error and
\* returns a value equal to the recorded one.
C1_RoundTrip ==
  (phase = "replayed" /\ SameConfiguration) => (out.rerr = "" /\ out.rval = out.val)

\* C5: a replay whose draws differ from the recorded run's (another length,
\* another reason, more or fewer draws) ends in a trace error.
C5_DivergenceNoticed ==
  (phase = "replayed" /\ Requests(out.rdraws) # Requests(out.draws))
    => out.rerr \in TraceErrors

\* the routines that test the depth, and what each returns when too deep
DepthRoutines ==
  {"generate", "Array", "Set", "Map", "object", "Proxy", "function", "Buffer",
   "TypedArray"}

Terminal(routine, v) ==
  CASE routine \in {"generate", "object", "Proxy"} -> v = Null
    [] routine \in {"Array", "Set", "Map", "function", "Buffer"} ->
         v = V(routine, <<>>, <<>>)
    [] routine = "TypedArray" -> v.d = <<>> /\ v.k = <<>>

TooDeep ==
  phase = "recorded" /\ entry[2] > opts.depth /\ entry[1] \in DepthRoutines

\* generate() calls made inside the call of the routine
Recursions == out.calls - (IF entry[1] = "generate" THEN 1 ELSE 0)

\* C6 as stated: a routine called too deep returns its terminal value, makes
\* no recursive generate call and no draw.
C6_DepthNoDraw ==
  TooDeep => (out.err = "" /\ Terminal(entry[1], out.val) /\ Recursions = 0
              /\ out.draws = <<>>)

\* C6: a routine called too deep returns its terminal value and makes no
\* recursive generate call; it makes no draw, except generate_TypedArray,
\* which picks its type and draws zero bytes.
C6_DepthExhaustion ==
  TooDeep =>
    /\ out.err = "" /\ Terminal(entry[1], out.val) /\ Recursions = 0
    /\ IF entry[1] = "TypedArray"
       THEN /\ Len(out.draws) = 2
            /\ out.draws[1].reason =
                 Lit("_randUInt32") \o Fmt("_upto", Len(Basura(opts).typedArrays))
                 \o Fmt("_pick", Len(Basura(opts).typedArrays)) \o Lit("TypedArray type")
            /\ out.draws[2].num = 0
       ELSE out.draws = <<>>

C6_Witness ==
  TooDeep /\ entry[1] = "TypedArray" /\ Len(out.draws) = 2 /\ out.val.d = <<>>

\* the general category of a codepoint
CategoryOf(code) == CharsGet(Index, code).cp.category

StringReturned == phase = "recorded" /\ entry[1] = "string" /\ out.err = ""

\* C8: the first codepoint of a string returned by generate_string is not a
\* nonspacing mark.
C8_NoLeadingMark ==
  (StringReturned /\ out.val.d # <<>>) => CategoryOf(out.val.d[1]) # "Mn"

\* the codepoints picked by the draws of generate_string from the third on
StringPoints ==
  ScriptsGet(EmptyCache,
             opts.scripts[ModBE(out.draws[1].buf, 1, 0, Len(opts.scripts)) + 1],
             NoFilter).pts
StringPicks ==
  [i \in 1..(Len(out.draws) - 2) |->
     StringPoints[ModBE(out.draws[i + 2].buf, 1, 0, Len(StringPoints)) + 1].code]

RECURSIVE DropMarks(_)
DropMarks(codepoints) ==
  IF codepoints # <<>> /\ CategoryOf(Head(codepoints)) = "Mn"
  THEN DropMarks(Tail(codepoints))
  ELSE codepoints

C8_Witness ==
  /\ StringReturned /\ out.val.d # <<>>
  /\ CategoryOf(StringPicks[1]) = "Mn"

Mismatch ==
  /\ out.op = "draw" /\ out.before # <<>>
  /\ \/ Len(Head(out.before)[1]) # out.num
     \/ Head(out.before)[2] # out.reason

\* C3: a replaying draw whose length differs from the head entry's byte
\* length, or whose reason differs from the head entry's reason, fails with
\* the mismatch error and returns no bytes.
C3_MismatchDetected == Mismatch => (out.err = "Expected bytes" /\ out.buf = <<>>)

C3_Witness ==
  /\ Mismatch /\ Len(Head(out.before)[1]) = out.num /\ out.num > 0
  /\ out.err = "Expected bytes"

\* C4: a replaying draw on an empty trace fails with the exhausted-trace
\* error, and a replaying draw that returns returns the bytes of the head
\* entry of the trace, which it consumes.
C4_ReplayExhaustion ==
  out.op = "draw" =>
    /\ out.before = <<>> => (out.err = "Out of playback data" /\ out.buf = <<>>)
    /\ out.err = "" => /\ out.before # <<>>
                       /\ out.buf = Head(out.before)[1]
                       /\ record = Tail(out.before)

C4_Witness ==
  out.op = "draw" /\ out.before = <<>> /\ out.num > 0 /\ out.err = "Out of playback data"

(***************************************************************************)
(* Properties of the script catalog.                                       *)
(***************************************************************************)
\* C7: Scripts.get fails on every call made with a name that is not one of
\* the scripts found, and the failed call leaves the cache as it was.
C7_UnknownScript ==
  (out.op = "get" /\ ~ScriptMapHas(out.script))
    => (out.err # "" /\ scriptPoints = out.before)

\* what get(script) returns once the call under way has returned
FullList == ScriptsGet(scriptPoints, out.script, NoFilter).pts

\* C14: for a known script, get(script, categories) returns exactly the
\* codepoints of get(script) whose category is listed, get(script, true)
\* exactly those whose property is PVALID, and get(script, false) and
\* get(script) the full list.
C14_CatalogFilter ==
  (out.op = "get" /\ ScriptMapHas(out.script)) =>
    /\ out.err = ""
    /\ out.pts =
         CASE out.filter.kind = "cats" ->
                SelectSeq(FullList,
                          LAMBDA c : \E i \in DOMAIN out.filter.cats :
                                       out.filter.cats[i] = c.category)
           [] out.filter.kind = "bool" /\ out.filter.b ->
                SelectSeq(FullList, LAMBDA c : c.property = "PVALID")
           [] OTHER -> FullList

C14_Witness ==
  /\ out.op = "get" /\ out.script = "Hebrew" /\ out.filter = CatFilter(<<"Ll", "Mn">>)
  /\ Len(out.pts) = 1 /\ out.pts[1].code = 3 /\ Len(FullList) = 2

(***************************************************************************)
(* Properties of the inverse walk.                                         *)
(***************************************************************************)
\* the replay of the walk of example by a Basura with the same options
WalkReplayed(routine) ==
  phase = "replayed" /\ SameConfiguration /\ entry[1] = routine

\* C2: the record of Arusab.generate(value), replayed by a fresh Basura with
\* the same options, makes generate() return a value equal to the input,
\* with no trace error and the trace consumed.
C2_InverseWalk ==
  WalkReplayed("generate")
    => (out.rerr = "" /\ out.rval = example /\ record = <<>>)

\* C10: the record of a text with n codepoints of which the first k are
\* nonspacing marks replays into the text made of the other n - k
\* codepoints, consuming the n picks recorded.
C10_LeadingMarksDropped ==
  WalkReplayed("string")
    => (out.rerr = "" /\ out.rval = V("string", DropMarks(example.d), <<>>)
        /\ record = <<>>)

(***************************************************************************)
(* Termination of the generation routines.                                 *)
(***************************************************************************)
\* the routines with a retry loop, and the draws each makes when no
\* iteration of its loop is repeated: the script, the length and at most
\* stringLength - 1 codepoints; the chance and one number; one pair of
\* unit-interval values
LoopRoutines == {"string", "number", "Date"}

DrawBound(routine, o) ==
  IF routine = "string" THEN 2 + (o.stringLength - 1) ELSE 2

\* C11: a call of generate_string, generate_number or generate_Date has
\* returned once it has made the draws its lengths allow for: it never asks
\* for a further draw.
C11_Termination ==
  (phase = "recording" /\ entry[1] \in LoopRoutines /\ RecRun.m.err = "draw")
    => Len(record) < DrawBound(entry[1], opts)

(***************************************************************************)
(* Properties of the draw engine.                                          *)
(***************************************************************************)
\* the big-endian uint32 of buf modulo num, 0 < num <= 32768, by long
\* division in base 65536
UInt32Mod(buf, num) ==
  (((((buf[1] * 256) + buf[2]) % num) * 65536) + ((buf[3] * 256) + buf[4])) % num

\* C12: _upto(num) with num > 0 makes exactly one draw, of 4 bytes, and
\* returns their big-endian uint32 modulo num, a value of 0..num-1; _upto(0)
\* returns 0 and makes no draw.
C12_UniformIndex ==
  out.op = "_upto" =>
    /\ out.err = ""
    /\ IF out.arg > 0
       THEN /\ Len(out.draws) = 1 /\ out.draws[1].num = 4
            /\ out.val = UInt32Mod(out.draws[1].buf, out.arg)
            /\ out.val \in 0..(out.arg - 1)
       ELSE out.val = 0 /\ out.draws = <<>>

C12_Witness ==
  /\ out.op = "_upto" /\ out.arg = 10
  /\ out.draws[1].buf = <<255, 255, 0, 1>> /\ out.val = 1

\* C13: _pick on an empty array fails with an assertion error before any
\* draw is made; on an array that is not empty it returns one of its elements.
C13_PickPrecondition ==
  out.op = "_pick" =>
    IF out.arg = <<>>
    THEN out.err = "AssertionError" /\ out.draws = <<>>
    ELSE out.err = "" /\ Includes(out.arg, out.val)

C13_Witness ==
  out.op = "_pick" /\ out.arg = <<>> /\ out.err = "AssertionError"

\* -2^31 <= h * 65536 + l <= 2^31 - 1 for the number kept as d = <<h, l>>,
\* -65535 <= l <= 0
Int32(d) ==
  /\ (d[1] >= -32767) \/ (d[1] = -32768 /\ d[2] >= 0)
  /\ (d[1] <= 32767) \/ (d[1] = 32768 /\ d[2] <= -1)

\* C20: generate_integer returns a signed 32-bit integer for every 4-byte
\* draw.
C20_IntegerRange ==
  (out.op = "generate_integer" /\ out.err = "") => Int32(out.val.d)

\* 2u - 1 in units of 2^-11 for the unit-interval value u read from buf, and
\* the squared radius of the k-th pair of draws
DevOf(buf) == ((((buf[7] % 16) * 256) + buf[6])) - 2048
PairS(draws, k) ==
  (DevOf(draws[(2 * k) - 1].buf) * DevOf(draws[(2 * k) - 1].buf))
  + (DevOf(draws[2 * k].buf) * DevOf(draws[2 * k].buf))
Accepted(s) == 0 < s /\ s < 2048 * 2048

\* C17: a _randomGauss call made with no spare cached draws pairs of 8-byte
\* unit-interval values until a pair has 0 < s < 1, returns the value of the
\* first deviate of that pair and caches the second; a call made with a
\* spare cached makes no draw, returns the value of the spare under its own
\* mean and stdDev and clears the cache.
C17_GaussianSpare ==
  (out.op = "_randomGauss") =>
    /\ out.err = ""
    /\ IF out.spare = <<>>
       THEN /\ Len(out.draws) >= 2 /\ Len(out.draws) % 2 = 0
            /\ \A i \in 1..Len(out.draws) : out.draws[i].num = 8
            /\ \A k \in 1..(Len(out.draws) \div 2) :
                 Accepted(PairS(out.draws, k)) <=> (k = Len(out.draws) \div 2)
            /\ out.val = << out.arg[1], out.arg[2],
                            DevOf(out.draws[Len(out.draws) - 1].buf),
                            PairS(out.draws, Len(out.draws) \div 2) >>
            /\ spareGauss = << DevOf(out.draws[Len(out.draws)].buf),
                               PairS(out.draws, Len(out.draws) \div 2) >>
       ELSE /\ out.draws = <<>>
            /\ out.val = <<out.arg[1], out.arg[2], out.spare[1], out.spare[2]>>
            /\ spareGauss = <<>>

C17_Witness ==
  /\ out.op = "_randomGauss" /\ out.spare # <<>> /\ out.draws = <<>>
  /\ out.arg = <<1, DATE_10YEARS>> /\ out.val[3] = out.spare[1]

(***************************************************************************)
(* Properties of the index.                                                *)
(***************************************************************************)
\* data.json as built from the reference data
BuiltData == main(reference.db, reference.rows).data

\* C15: Chars.get returns null when the trie yields the invalid value and
\* throws 'Trie error' when it yields the error value; it returns no
\* classification record in either case.
C15_LookupOutcomes ==
  out.op = "lookup" =>
    /\ (out.x = BuiltData.invalid) => (out.err = "" /\ out.cp = NullCP)
    /\ (out.x = BuiltData.error) => (out.err = "Trie error" /\ out.cp = NullCP)

C15_Witness ==
  out.op = "lookup" /\ out.code = MaxCode + 1 /\ out.err = "Trie error"

\* c is in the database with a script and a row of the table that is not
\* UNASSIGNED covers it
Covers(row, c) == row.start <= c /\ c <= row.end
Classified(ref, c) ==
  /\ \E i \in DOMAIN ref.db : ref.db[i].code = c /\ ref.db[i].script # ""
  /\ \E j \in DOMAIN ref.rows : Covers(ref.rows[j], c) /\ ref.rows[j].Property # "UNASSIGNED"

\* C16: on the index built from a database and a property table, the lookup
\* of a classified codepoint c returns code c, the database's category and
\* script and the table's property, the script being one of the scripts of
\* the metadata; the lookup of every other codepoint returns null.
C16_BuildThenLookup ==
  (out.op = "lookup" /\ out.code \in 0..MaxCode) =>
    /\ out.err = ""
    /\ IF Classified(reference, out.code)
       THEN /\ out.cp.code = out.code
            /\ \E i \in DOMAIN reference.db :
                 /\ reference.db[i].code = out.code
                 /\ reference.db[i].category = out.cp.category
                 /\ reference.db[i].script = out.cp.script
            /\ \E j \in DOMAIN reference.rows :
                 /\ Covers(reference.rows[j], out.code)
                 /\ reference.rows[j].Property = out.cp.property
            /\ \E k \in DOMAIN BuiltData.scripts : BuiltData.scripts[k][1] = out.cp.script
       ELSE out.cp = NullCP

C16_Witness ==
  /\ out.op = "lookup" /\ out.code = 3 /\ Len(BuiltData.scripts) = 3
  /\ out.cp.script = "Hebrew" /\ out.cp.category = "Mn"
  /\ out.cp.property = "DISALLOWED" /\ Len(BuiltData.properties) = 3

(***************************************************************************)
(* Properties of the kind registry.                                        *)
(***************************************************************************)
KindNames == {SortedNames[i] : i \in DOMAIN SortedNames}

\* the kind n is enabled under the options o
EnabledKind(o, n) ==
  /\ (n \in BasuraMethods) \/ (\E e \in o.types : e[1] = n)
  /\ ~(\E e \in o.types : e[1] = n /\ e[2])
  /\ o.cborSafe => n \notin cborUnsafe
  /\ o.jsonSafe => n \notin jsonUnsafe
  /\ o.noBoxed => n \notin boxed

\* typeNames of the generator under way, and the kind its generate() call
\* picked with its first draw
TypeNames == Basura(opts).typeNames
DispatchedKind == TypeNames[ModBE(out.draws[1].buf, 1, 0, Len(TypeNames)) + 1]

\* the value v is one the routine of the kind returns
Produces(kind, v) ==
  CASE kind = "TypedArray" -> \E i \in DOMAIN allTypedArrays : allTypedArrays[i][1] = v.t
    [] kind \in {"object", "Proxy"} -> v.t = kind \/ v = Null
    [] OTHER -> v.t = kind

\* the generator has been constructed and no call has drawn yet
Constructed == phase = "recording" /\ record = <<>>

GenerateReturned == phase = "recorded" /\ entry = <<"generate", 0>> /\ out.err = ""

\* C18: typeNames lists exactly the enabled kinds, in sorted order, and a
\* generate() call returns what the routine of a kind of that list returns.
C18_KindRegistry ==
  /\ Constructed =>
       /\ \A n \in KindNames : Includes(TypeNames, n) <=> EnabledKind(opts, n)
       /\ \A i, j \in DOMAIN TypeNames :
            i < j => IndexOf(SortedNames, TypeNames[i], 1)
                       < IndexOf(SortedNames, TypeNames[j], 1)
  /\ GenerateReturned =>
       /\ out.draws[1].reason =
            Lit("_randUInt32") \o Fmt("_upto", Len(TypeNames))
            \o Fmt("_pick", Len(TypeNames)) \o Lit("type")
       /\ EnabledKind(opts, DispatchedKind)
       /\ Produces(DispatchedKind, out.val)

C18_Witness ==
  /\ GenerateReturned /\ out.val.t = "Date"
  /\ opts.types = {<<"Boolean", TRUE>>, <<"Buffer", TRUE>>}

(***************************************************************************)
(* C19: generate_Array, generate_Set, generate_Map and generate_object     *)
(* called at a depth d <= maxDepth draw one size n = _upto(arrayLength)    *)
(* and then generate exactly n elements at depth d + 1 in order (Map and   *)
(* object: the key first and then the value of each entry); the result has *)
(* at most n entries, exactly n for an Array, hence fewer than arrayLength *)
(* of them; with arrayLength = 0 the result is empty and no size is drawn. *)
(***************************************************************************)
SizeReason(c) ==
  CASE c = "Array" -> "arrayLength"
    [] c = "Set" -> "setlen"
    [] c = "Map" -> "Map len"
    [] c = "object" -> "objectlen"

IsSizeDraw(dr) ==
  /\ dr.num = 4
  /\ dr.reason = Lit("_randUInt32") \o Fmt("_upto", opts.arrayLength)
                   \o Lit(SizeReason(entry[1]))

\* the size n drawn by the call
SizeDrawn == ModBE(out.draws[1].buf, 1, 0, opts.arrayLength)

\* the draws that pick the kind of an element, and the kind the i-th picks
IsTypeDraw(dr) == dr.reason[Len(dr.reason)] = <<"type", 0>>
IsKeyDraw(dr) == dr.reason[Len(dr.reason)] = <<"key", 0>>
\* the first draw of a key: the pick of its script
IsKeyStart(dr) ==
  IsKeyDraw(dr) /\ dr.reason[Len(dr.reason) - 1] = <<"script", 0>>
TypeDraws == SelectSeq(out.draws, IsTypeDraw)
KindAt(i) == TypeNames[ModBE(TypeDraws[i].buf, 1, 0, Len(TypeNames)) + 1]

\* generate() calls made for n entries
ElementCalls(c, n) == IF c = "Map" THEN 2 * n ELSE n

ContainerReturned ==
  /\ phase = "recorded"
  /\ entry[1] \in Containers
  /\ entry[2] <= opts.depth
  /\ out.err = ""

C19_BoundedContainers ==
  ContainerReturned =>
    IF opts.arrayLength = 0
    THEN out.val.k = <<>> /\ out.draws = <<>> /\ out.calls = 0
    ELSE
      /\ IsSizeDraw(out.draws[1])
      /\ \A i \in 2..Len(out.draws) : ~IsSizeDraw(out.draws[i])
      /\ out.val.t = entry[1]
      /\ out.calls = ElementCalls(entry[1], SizeDrawn)
      /\ Len(out.val.k) <= SizeDrawn
      /\ entry[1] = "Array" => Len(out.val.k) = SizeDrawn
      /\ Len(out.val.k) < opts.arrayLength
      \* elements are generated at depth d + 1: past the limit they are
      \* null and draw nothing, within it each one picks its kind
      /\ IF entry[2] = opts.depth
         THEN /\ TypeDraws = <<>>
              /\ entry[1] \in {"Array", "Set"} =>
                   \A i \in DOMAIN out.val.k : out.val.k[i] = Null
              /\ entry[1] \in {"Map", "object"} =>
                   \A i \in DOMAIN out.val.k : out.val.k[i].k[2] = Null
         ELSE Len(TypeDraws) = out.calls
      \* in order: the i-th element is of the kind picked i-th
      /\ (entry[1] = "Array" /\ entry[2] < opts.depth) =>
           \A i \in DOMAIN out.val.k : Produces(KindAt(i), out.val.k[i])
      /\ (entry[1] = "Map" /\ entry[2] < opts.depth /\ SizeDrawn = 1) =>
           /\ Produces(KindAt(1), out.val.k[1].k[1])
           /\ Produces(KindAt(2), out.val.k[1].k[2])
      \* object: a string key, drawn before the kind of its value is
      /\ entry[1] = "object" =>
           /\ \A i \in DOMAIN out.val.k : out.val.k[i].k[1].t = "string"
           /\ Cardinality({i \in DOMAIN out.draws :
                             IsKeyStart(out.draws[i])}) = SizeDrawn
           /\ (entry[2] < opts.depth /\ SizeDrawn >= 1) =>
                /\ IsKeyStart(out.draws[2])
                /\ ~IsKeyDraw(out.draws[Len(out.draws)])

\* an Array of two elements of different kinds, in the order picked
C19_Witness ==
  /\ ContainerReturned
  /\ entry[1] = "Array"
  /\ entry[2] < opts.depth
  /\ opts.arrayLength > 0
  /\ SizeDrawn = 2
  /\ Len(out.val.k) = 2
  /\ out.val.k[1].t = "Array"
  /\ out.val.k[2].t = "Buffer"

(***************************************************************************)
(* C21: generate_bigint draws the byte length, then the magnitude bytes,   *)
(* then the sign; the byte length is _upto(stringLength - 1) + 1 (no draw  *)
(* when stringLength is 1), the magnitude is the bytes read big-endian,    *)
(* and the result is negated exactly when the sign draw is 1; so the       *)
(* magnitude has between 1 and max(1, stringLength - 1) bytes.             *)
(***************************************************************************)
BigintReturned ==
  phase = "recorded" /\ entry[1] = "bigint" /\ out.err = ""

\* _upto(0) draws nothing: with stringLength = 1 the first draw is the magnitude
LenDraws == IF opts.stringLength = 1 THEN 0 ELSE 1
ByteLen ==
  IF opts.stringLength = 1 THEN 1
  ELSE ModBE(out.draws[1].buf, 1, 0, opts.stringLength - 1) + 1
MagDraw == out.draws[LenDraws + 1]
SignDraw == out.draws[LenDraws + 2]
Max(a, b) == IF a > b THEN a ELSE b

C21_SignedBigInt ==
  BigintReturned =>
    /\ Len(out.draws) = LenDraws + 2
    /\ LenDraws = 1 =>
         /\ out.draws[1].num = 4
         /\ out.draws[1].reason =
              Lit("_randUInt32") \o Fmt("_upto", opts.stringLength - 1)
              \o Lit("_randUBigInt len") \o Lit("signed")
    /\ MagDraw.num = ByteLen
    /\ Len(MagDraw.buf) = ByteLen
    /\ MagDraw.reason = Lit("_randUBigInt") \o Lit("signed")
    /\ SignDraw.num = 4
    /\ SignDraw.reason =
         Lit("_randUInt32") \o Fmt("_upto", 2) \o Lit("bigint sign")
    /\ out.val.t = "bigint"
    /\ Tail(out.val.d) = StripZeros(MagDraw.buf)
    /\ out.val.d[1] \in {0, 1}
    /\ out.val.d[1] = 1 <=>
         (ModBE(SignDraw.buf, 1, 0, 2) = 1 /\ StripZeros(MagDraw.buf) # <<>>)
    /\ 1 <= ByteLen
    /\ ByteLen <= Max(1, opts.stringLength - 1)

\* a negative two-byte magnitude
C21_Witness ==
  /\ BigintReturned
  /\ opts.stringLength = MaxLen + 1
  /\ ByteLen = 2
  /\ out.val.d = <<1, 1>>
  /\ ModBE(SignDraw.buf, 1, 0, 2) = 1

(***************************************************************************)
(* C22: in generate_URL the script of the domain label is the script of    *)
(* the first codepoint of the top-level label picked (no draw chooses it); *)
(* the first codepoint of the label is picked from that script's PVALID    *)
(* codepoints of category Ll, Lo or Lm, and each of the following          *)
(* _upto(stringLength - 1) codepoints from its PVALID codepoints of        *)
(* category Ll, Lm, Lo, Nd, Mn or Mc; so the label never starts with a     *)
(* mark or a digit.                                                        *)
(***************************************************************************)
URLReturned == out.op = "generate_URL" /\ out.err = ""

LabelOf == out.val.k[1].d
ChosenTld == tlds[ModBE(out.draws[2].buf, 1, 0, Len(tlds)) + 1]
TldScript == CodeOf(reference.db, ChosenTld[1]).script

\* the codepoints of the reference data in TldScript, PVALID, of a category in cats
LabelPoints(cats) ==
  { c \in 1..MaxCode :
      /\ HasCode(reference.db, c)
      /\ CodeOf(reference.db, c).script = TldScript
      /\ CodeOf(reference.db, c).category \in cats
      /\ RowsOf(reference.rows, c) # {}
      /\ LastRow(reference.rows, c).Property = "PVALID" }

Lowercase == LabelPoints({"Ll", "Lo", "Lm"})
More == LabelPoints({"Ll", "Lm", "Lo", "Nd", "Mn", "Mc"})

\* the draws of the label are the last ones: first codepoint, length, the others
FirstIx == Len(out.draws) - Len(LabelOf)
URLReason(dr) == dr.reason[Len(dr.reason)] = <<"URL", 0>>

C22_DomainLabel ==
  URLReturned =>
    /\ out.val.k[2].d = ChosenTld
    /\ FirstIx >= 5
    /\ out.draws[FirstIx].reason =
         Lit("_randUInt32") \o Fmt("_upto", Cardinality(Lowercase))
         \o Fmt("_pick", Cardinality(Lowercase)) \o Lit("copdepoint1") \o Lit("URL")
    /\ out.draws[FirstIx + 1].reason =
         Lit("_randUInt32") \o Fmt("_upto", opts.stringLength - 1)
         \o Lit("stringLength") \o Lit("URL")
    /\ Len(LabelOf) =
         1 + ModBE(out.draws[FirstIx + 1].buf, 1, 0, opts.stringLength - 1)
    /\ \A i \in (FirstIx + 2)..Len(out.draws) :
         out.draws[i].reason =
           Lit("_randUInt32") \o Fmt("_upto", Cardinality(More))
           \o Fmt("_pick", Cardinality(More)) \o Lit("codepoint") \o Lit("URL")
    \* no other draw is made for the label: its script is not drawn
    /\ \A i \in 1..(FirstIx - 1) : ~URLReason(out.draws[i])
    /\ \A i \in 3..Len(out.draws) :
         out.draws[i].reason[Len(out.draws[i].reason) - 1] = <<"script", 0>>
           => out.draws[i].reason[Len(out.draws[i].reason)] = <<"URL pathname", 0>>
    /\ LabelOf[1] \in Lowercase
    /\ \A i \in 2..Len(LabelOf) : LabelOf[i] \in More
    /\ CodeOf(reference.db, LabelOf[1]).category \notin {"Mn", "Mc", "Nd"}

\* a Hebrew label of a letter followed by a mark, under the Hebrew tld
C22_Witness ==
  /\ URLReturned
  /\ out.val.k[2].d = <<4>>
  /\ TldScript = "Hebrew"
  /\ LabelOf = <<4, 3>>
  /\ 3 \in More /\ 3 \notin Lowercase

(***************************************************************************)
(* C23: generators that each have their own replaying source and their own *)
(* options and share the one script catalog return, whatever the order of  *)
(* their calls and of the catalog requests, the value they return when run *)
(* alone, and consume the same part of their trace.                        *)
(***************************************************************************)
\* the same call on a catalog nobody else has used
AloneRun ==
  Run(Basura(out.opts), Machine("playback", out.trace, EmptyCache, now), "string", 0)

C23_InstanceIndependence ==
  out.op = "shared" =>
    /\ out.val = AloneRun.v
    /\ out.err = AloneRun.m.err
    /\ out.rest = AloneRun.m.src

\* the same, for generators whose scripts are all in the catalog
C23_KnownScripts ==
  (out.op = "shared" /\ \A i \in DOMAIN out.opts.scripts :
                           ScriptMapHas(out.opts.scripts[i])) =>
    /\ out.val = AloneRun.v
    /\ out.err = AloneRun.m.err
    /\ out.rest = AloneRun.m.src

(***************************************************************************)
(* C24: after any sequence of successful replaying draws the buffers       *)
(* returned are, in order, the first k entries of the trace loaded, and    *)
(* the trace left is the trace loaded without its first k entries.         *)
(***************************************************************************)
AllDrawsSucceeded == phase = "playback" /\ out.op = "draw" /\ ~out.failed

C24_ReplayOrder ==
  AllDrawsSucceeded =>
    /\ Len(out.returned) <= Len(out.loaded)
    /\ out.returned = Bufs(SubSeq(out.loaded, 1, Len(out.returned)))
    /\ record = SubSeq(out.loaded, Len(out.returned) + 1, Len(out.loaded))

\* two draws answered by two different entries, in the order of the trace
C24_Witness ==
  /\ AllDrawsSucceeded
  /\ Len(out.returned) = 2
  /\ out.returned[1] # out.returned[2]
  /\ out.loaded[1][1] = out.returned[1]

(***************************************************************************)
(* C30: playback removes exactly one entry from the front of the trace on  *)
(* every call that finds it non-empty, also when the call then fails with  *)
(* a length or reason mismatch; a call that finds the trace empty fails,   *)
(* leaves it empty and changes nothing else.                               *)
(***************************************************************************)
C30_ConsumptionOnFailure ==
  (phase = "playback" /\ out.op = "draw") =>
    /\ out.before # <<>> => record = Tail(out.before)
    /\ out.before = <<>> =>
         /\ out.err = "Out of playback data"
         /\ record = <<>>
         /\ out.buf = <<>>

\* a draw that failed on a mismatch and lost the entry it met
C30_Witness ==
  /\ phase = "playback" /\ out.op = "draw"
  /\ out.err = "Expected bytes"
  /\ Len(out.before) = 2
  /\ record = Tail(out.before)

(***************************************************************************)
(* C25: the range of a known script is scanned at most once in the life of *)
(* the catalog; a later get of the script scans nothing and returns the    *)
(* same codepoints, so get(script, filter) of a known script returns the   *)
(* same whatever calls were made before.                                   *)
(***************************************************************************)
KnownGet == phase = "scripts" /\ out.op = "get" /\ ScriptMapHas(out.script)

C25_Memoization ==
  /\ (phase = "scripts" /\ out.op = "get") =>
       \A s \in ScriptNameSpace : ScriptMapHas(s) => s \notin out.again
  /\ KnownGet =>
       /\ out.scanned <=> ~out.before[out.script].has
       /\ out.script \in out.once
       /\ out.err = ""
       /\ out.pts = ScriptsGet(EmptyCache, out.script, out.filter).pts
       /\ scriptPoints[out.script].has
       /\ scriptPoints[out.script].pts = ScriptsGet(EmptyCache, out.script, NoFilter).pts

\* a second get of Hebrew, after the one that scanned: no scan, both codepoints
C25_Witness ==
  /\ KnownGet
  /\ out.script = "Hebrew"
  /\ out.before["Hebrew"].has
  /\ ~out.scanned
  /\ out.filter = NoFilter
  /\ Len(out.pts) = 2

(***************************************************************************)
(* C26: for every known script S, get(S) is exactly the codepoints c whose *)
(* lookup is not null and has script S, each once, in ascending order; no  *)
(* classified codepoint of S lies outside [first, last] of S.              *)
(***************************************************************************)
\* lookup(c) is not null and its script is s
LooksUpAs(c, s) ==
  /\ CharsGet(Index, c).err = ""
  /\ CharsGet(Index, c).cp # NullCP
  /\ CharsGet(Index, c).cp.script = s

FullGet == KnownGet /\ out.filter = NoFilter

C26_CatalogCompleteness ==
  FullGet =>
    /\ \A c \in (-1)..(MaxCode + 1) :
         (\E i \in DOMAIN out.pts : out.pts[i].code = c) <=> LooksUpAs(c, out.script)
    /\ \A i \in DOMAIN out.pts : out.pts[i] = CharsGet(Index, out.pts[i].code).cp
    /\ \A i, j \in DOMAIN out.pts : i < j => out.pts[i].code < out.pts[j].code
    /\ \A c \in (-1)..(MaxCode + 1) :
         LooksUpAs(c, out.script) =>
           /\ ScriptMap(out.script)[1] <= c
           /\ c <= ScriptMap(out.script)[2]

\* Latin, whose range [1, 5] also holds the two Hebrew codepoints
C26_Witness ==
  /\ FullGet
  /\ out.script = "Latin"
  /\ ScriptMap("Latin") = <<1, 5>>
  /\ LooksUpAs(3, "Hebrew")
  /\ Len(out.pts) = 3
  /\ out.pts[3].code = 5

(***************************************************************************)
(* C27: each field width is ceil(log2(count)) of its enumeration (0 for a  *)
(* single entry); for every triple of indexes within the enumerations the  *)
(* packed value property | script << scriptShift | category <<             *)
(* categoryShift decodes with the shifts and masks of the metadata to the  *)
(* same triple and is less than the invalid value 1 << (categoryShift +    *)
(* categoryBits), so it is neither the invalid nor the error value.        *)
(***************************************************************************)
\* the least k with 2^k >= n
CeilLog2(n) == CHOOSE k \in 0..8 : Pow2(k) >= n /\ \A j \in 0..(k - 1) : Pow2(j) < n

\* the sizes of the three enumerations found by the build
NumCategories == Len(categoryNames(reference.db))
NumScripts == Len(scriptNames(reference.db))
NumProperties == Len(propertyNames(reference.rows))

Field(x, shift, width) == Shr(x, shift) % Pow2(width)

IndexBuilt == phase = "index" /\ out.op = "lookup"

\* the metadata d packs and unpacks every triple of indexes
PackingOf(d) ==
  /\ NumCategories >= 1 => d.categoryBits = CeilLog2(NumCategories)
  /\ NumScripts >= 1 => d.scriptBits = CeilLog2(NumScripts)
  /\ NumProperties >= 1 => d.propertyBits = CeilLog2(NumProperties)
  /\ d.propertyShift = 0
  /\ d.scriptShift = d.propertyBits
  /\ d.categoryShift = d.scriptShift + d.scriptBits
  /\ d.invalid = Pow2(d.categoryShift + d.categoryBits)
  /\ \A p \in 0..(NumProperties - 1), s \in 0..(NumScripts - 1),
        c \in 0..(NumCategories - 1) :
       /\ Field(Packed(p, s, c, d.scriptShift, d.categoryShift),
                d.propertyShift, d.propertyBits) = p
       /\ Field(Packed(p, s, c, d.scriptShift, d.categoryShift),
                d.scriptShift, d.scriptBits) = s
       /\ Field(Packed(p, s, c, d.scriptShift, d.categoryShift),
                d.categoryShift, d.categoryBits) = c
       /\ Packed(p, s, c, d.scriptShift, d.categoryShift) < d.invalid
       /\ Packed(p, s, c, d.scriptShift, d.categoryShift) # d.error
  /\ Classified(reference, out.code) =>
       /\ out.x < d.invalid
       /\ out.cp.property =
            d.properties[Field(out.x, d.propertyShift, d.propertyBits) + 1]
       /\ out.cp.category =
            d.categories[Field(out.x, d.categoryShift, d.categoryBits) + 1]

\* the widths the build computes for enumerations of 1..MaxCount entries
MaxCount == 33
WidthsOf == \A n \in 1..MaxCount : bits(n - 1) = CeilLog2(n)

C27_BitFieldPacking == IndexBuilt => (WidthsOf /\ PackingOf(BuiltData))

\* the highest index of each enumeration stored for a codepoint
StoredHighest(d) ==
  /\ d.scriptBits = 2 /\ d.propertyBits = 2 /\ d.categoryBits = 2
  /\ out.x = Packed(2, 2, 2, d.scriptShift, d.categoryShift)

\* three scripts, three properties and three categories: every width is 2
C27_Witness ==
  /\ IndexBuilt
  /\ NumScripts = 3 /\ NumProperties = 3 /\ NumCategories = 3
  /\ Classified(reference, out.code)
  /\ StoredHighest(BuiltData)
(***************************************************************************)
(* C28: the build of the index aborts with an error and writes no index    *)
(* whenever an entry of the property table is not a single hexadecimal     *)
(* codepoint or an inclusive hexadecimal range, and whenever it runs with  *)
(* no classified codepoint.                                                *)
(***************************************************************************)
\* H+ or H+-H+, H a hexadecimal digit
WellFormed(text) ==
  /\ text # <<>>
  /\ \/ \A i \in DOMAIN text : Includes(HexDigits, text[i])
     \/ \E k \in 2..(Len(text) - 1) :
          /\ text[k] = "-"
          /\ \A i \in DOMAIN text \ {k} : Includes(HexDigits, text[i])

MalformedEntry(rows) == \E i \in DOMAIN rows : ~WellFormed(rows[i].Codepoint)
NoClassified(ref) == \A c \in 0..MaxCode : ~Classified(ref, c)
BuildRan == phase = "index" /\ out.op \in {"lookup", "build"}
BuildAborted == out.op = "build" /\ out.err # ""

C28_BuildErrorsFatal ==
  (BuildRan /\ (MalformedEntry(reference.rows) \/ NoClassified(reference)))
    => BuildAborted

\* the part of it the build does: an entry without any hexadecimal digit, in
\* a row that is not UNASSIGNED, aborts the build
C28_NoDigitAborts ==
  (BuildRan /\ \E i \in DOMAIN reference.rows :
                 /\ reference.rows[i].Property # "UNASSIGNED"
                 /\ \A k \in DOMAIN reference.rows[i].Codepoint :
                      ~Includes(HexDigits, reference.rows[i].Codepoint[k]))
    => BuildAborted

(***************************************************************************)
(* C29: generate(d) calls the kind with d + 1 and a container called with  *)
(* k generates its elements with generate(k + 1); so in a value returned   *)
(* by generate(0) at most floor((maxDepth + 1) / 2) non-empty containers   *)
(* are nested inside one another, and every element of a container that    *)
(* was generated with a depth parameter >= maxDepth is null.               *)
(***************************************************************************)
RECURSIVE Nesting(_)
RECURSIVE MaxNesting(_)
RECURSIVE NullPast(_, _, _)

\* the values held by a container: elements, or the key and the value of each
\* entry (the key of an object entry is a string)
Held(v) ==
  IF v.t \in {"Array", "Set"} THEN v.k
  ELSE IF v.k = <<>> THEN <<>>
  ELSE [i \in 1..(2 * Len(v.k)) |-> v.k[(i + 1) \div 2].k[2 - (i % 2)]]

\* the largest Nesting of the values of a sequence
MaxNesting(vs) ==
  IF vs = <<>> THEN 0
  ELSE IF Nesting(Head(vs)) > MaxNesting(Tail(vs)) THEN Nesting(Head(vs))
  ELSE MaxNesting(Tail(vs))

\* the number of non-empty containers nested in one another in v; a Proxy is
\* its object
Nesting(v) ==
  IF v.t = "Proxy" THEN Nesting(v.k[1])
  ELSE IF v.t \in Containers /\ v.k # <<>> THEN 1 + MaxNesting(Held(v))
  ELSE 0

\* in v, returned by a kind called with depth k, the containers called with
\* maxDepth or more hold only nulls (and the string keys of an object)
NullPast(v, k, maxDepth) ==
  IF v.t = "Proxy" THEN NullPast(v.k[1], k, maxDepth)
  ELSE IF v.t \notin Containers THEN TRUE
  ELSE \A i \in DOMAIN Held(v) :
         IF k >= maxDepth
         THEN Held(v)[i] = Null \/ (v.t = "object" /\ i % 2 = 1)
         ELSE NullPast(Held(v)[i], k + 2, maxDepth)

C29_NestingBound ==
  (phase = "recorded" /\ entry = <<"generate", 0>> /\ out.err = "") =>
    /\ Nesting(out.val) <= (opts.depth + 1) \div 2
    /\ NullPast(out.val, 1, opts.depth)

\* an array in an array, the inner one holding a null: two containers with
\* maxDepth = 3
C29_Witness ==
  /\ phase = "recorded" /\ entry = <<"generate", 0>> /\ out.err = ""
  /\ opts.depth = 3
  /\ Nesting(out.val) = 2
  /\ out.val.t = "Array"
  /\ out.val.k[1].t = "Array"
  /\ out.val.k[1].k[1] = Null

====
